---------------------------- MODULE Spec2Model ----------------------------
(***************************************************************************)
(* Model of the OIDC provider's management plane:                          *)
(*   - the four management Lambda handlers (management-user,               *)
(*     management-client, management-application,                          *)
(*     management-user-application) and the utils module they call;       *)
(*   - the DynamoDB tables they read and write (users, clients,            *)
(*     applications, userApplications);                                    *)
(*   - the process-local issuer-URL cache of utils.getIssuerUrl;           *)
(*   - the signing keys of utils.getSigningKeys and the tokens of          *)
(*     createJWT / verifyJWT;                                              *)
(*   - utils.verifyUserPassword and utils.validateClient.                  *)
(*                                                                         *)
(* An invocation runs on its own process.  Between two awaits a handler    *)
(* runs without interruption, so every action below is the code from one   *)
(* await to the next; invocations on different processes interleave at    *)
(* these points.                                                           *)
(***************************************************************************)
EXTENDS Integers, Sequences, FiniteSets, TLC

VARIABLES
    users,             \* TABLES.users:            user_id -> item
    clients,           \* TABLES.clients:          client_id -> item
    applications,      \* TABLES.applications:     application_id -> item
    userApplications,  \* TABLES.userApplications: <<user_id, application_id>> -> item
    uuidCount,         \* number of identifiers uuidv4() has handed out
    now,               \* the wall clock read by new Date()
    fn,                \* per process: the Lambda function (or utils) the invocation runs
    pc,                \* per process: the await the invocation is suspended at
    event,             \* per process: the invocation's input event
    loc,               \* per process: the local variables of the running functions
    resp,              \* per process: the value the invocation returned
    written,           \* per process: the putItem calls the invocation made (history)
    pre,               \* per process: the store's tables as they were at invocation (history)
    threw,             \* per process: a dependency rejected a call of the invocation (history)
    started,           \* number of invocations started so far
    uaCreated,         \* pairs written by createUserApplication (history)
    cachedIssuerUrl,   \* utils: let cachedIssuerUrl
    cacheTimestamp,    \* utils: let cacheTimestamp
    clockMs,           \* Date.now() of the process that owns the cache
    ssmIssuer,         \* the issuer-URL parameter in the parameter store
    ipc,               \* position of the getIssuerUrl call in progress
    icall,             \* locals and outcome of the current / last getIssuerUrl call
    ihist,             \* history of the cache: when its value was really fetched
    lastSet,           \* username -> the password the last users write set (history)
    checked,           \* per process: lookups of entities other than the target (history)
    ssmKeys,           \* the signing-key parameter in the parameter store
    keyCount,          \* number of key pairs crypto.generateKeyPair has produced
    ktime,             \* the clock jsonwebtoken reads, in seconds
    kop,               \* per process: the utils function called (getSigningKeys, ...)
    kpc,               \* per process: the await that call is suspended at
    kloc,              \* per process: the call's arguments, locals and outcome
    tokens,            \* the tokens createJWT has returned (history)
    khist,             \* keys returned by completed getSigningKeys calls (history)
    pemLength          \* lengths of the PEM strings crypto.generateKeyPair resolves with

vars == << users, clients, applications, userApplications, uuidCount, now, fn,
           pc, event, loc, resp, written, pre, threw, started, uaCreated,
           cachedIssuerUrl, cacheTimestamp, clockMs, ssmIssuer, ipc, icall, ihist,
           lastSet, checked, ssmKeys, keyCount, ktime, kop, kpc, kloc, tokens,
           khist, pemLength >>

storeVars  == << users, clients, applications, userApplications >>
procVars   == << fn, pc, event, loc, resp, written, pre, threw, started, checked >>
issuerVars == << cachedIssuerUrl, cacheTimestamp, clockMs, ssmIssuer, ipc, icall, ihist >>
keyVars    == << ssmKeys, keyCount, ktime, kop, kpc, kloc, tokens, khist, pemLength >>

Procs == {"p1", "p2"}

\* Bounds of the model.
MaxInvocations == 2
MaxClock == 1
MaxAdvances == 3

(***************************************************************************)
(* JavaScript values.  An object is a function from its property names to  *)
(* their values; a property that is absent reads as undefined.             *)
(***************************************************************************)
EmptyObject == <<>>

Has(o, f) == f \in DOMAIN o

Without(o, fs) == [f \in DOMAIN o \ fs |-> o[f]]

\* { ...a, ...b }: the properties of b override those of a.
Spread(a, b) == b @@ a

\* A string value is truthy unless it is empty.
TruthyStr(o, f) == Has(o, f) /\ o[f] # ""

\* redirect_uris arrives as arbitrary JSON: an array of strings or a string.
JsArray(items) == [kind |-> "array", items |-> items, str |-> ""]
JsString(s) == [kind |-> "string", items |-> << >>, str |-> s]

\* Every array is truthy, also the empty one; a string is truthy unless empty.
TruthyVal(v) == v.kind = "array" \/ v.str # ""

IsArray(v) == v.kind = "array"

(***************************************************************************)
(* Strings as the regular expressions and the URL parser see them.         *)
(***************************************************************************)
\* Two passwords of 73 characters that differ in the last one only.
LongPrefix ==
    "Passw0rd!xxxxxxxxxxxxxxxxxxxxxxxxxxxxxxxxxxxxxxxxxxxxxxxxxxxxxxxxxxxxxxx"

LongPasswordA == LongPrefix \o "A"

LongPasswordB == LongPrefix \o "B"

LongPrefixChars ==
    << "P", "a", "s", "s", "w", "0", "r", "d", "!" >> \o [i \in 1..63 |-> "x"]

Chars(s) ==
    CASE s = "alice"        -> << "a", "l", "i", "c", "e" >>
      [] s = "Passw0rd!"    -> << "P", "a", "s", "s", "w", "0", "r", "d", "!" >>
      [] s = "N3wPass!"     -> << "N", "3", "w", "P", "a", "s", "s", "!" >>
      [] s = "password"     -> << "p", "a", "s", "s", "w", "o", "r", "d" >>
      [] s = "short"        -> << "s", "h", "o", "r", "t" >>
      [] s = LongPasswordA  -> LongPrefixChars \o << "A" >>
      [] s = LongPasswordB  -> LongPrefixChars \o << "B" >>
      [] s = "al"           -> << "a", "l" >>
      [] s = "web"          -> << "w", "e", "b" >>
      [] s = "w!b"          -> << "w", "!", "b" >>
      [] s = "ghost"        -> << "g", "h", "o", "s", "t" >>
      [] s = "app"          -> << "a", "p", "p" >>
      [] s = "a p"          -> << "a", " ", "p" >>
      [] s = "a@b.co"       -> << "a", "@", "b", ".", "c", "o" >>
      [] s = "a@b"          -> << "a", "@", "b" >>
      [] s = "https://a/cb" -> << "h", "t", "t", "p", "s", ":", "/", "/", "a", "/", "c", "b" >>
      [] s = "http://b/cb"  -> << "h", "t", "t", "p", ":", "/", "/", "b", "/", "c", "b" >>
      [] s = "ftp://bad"    -> << "f", "t", "p", ":", "/", "/", "b", "a", "d" >>
      [] s = "nourl"        -> << "n", "o", "u", "r", "l" >>

Letters == { "a", "b", "c", "d", "e", "f", "g", "h", "i", "l", "n", "o", "p",
             "r", "s", "t", "u", "w", "x" }
UpperLetters == { "A", "B", "N", "P" }
Digits == { "0", "1", "2", "3", "4", "5", "6", "7", "8", "9" }
IdChars == Letters \cup Digits \cup { "_", "-" }

\* /^[a-zA-Z0-9_-]{lo,hi}$/.test(s)
MatchesId(s, lo, hi) ==
    /\ Len(Chars(s)) >= lo
    /\ Len(Chars(s)) <= hi
    /\ \A i \in 1..Len(Chars(s)) : Chars(s)[i] \in IdChars

\* /^[^\s@]+@[^\s@]+\.[^\s@]+$/.test(s)
MatchesEmail(s) ==
    LET cs == Chars(s)
        ats == { i \in 1..Len(cs) : cs[i] = "@" }
    IN /\ \A i \in 1..Len(cs) : cs[i] # " "
       /\ Cardinality(ats) = 1
       /\ \E a \in ats :
             /\ a > 1
             /\ \E d \in (a + 2)..(Len(cs) - 1) : cs[d] = "."

RECURSIVE Join(_)
Join(cs) == IF cs = << >> THEN "" ELSE Head(cs) \o Join(Tail(cs))

\* new URL(uri): the scheme up to the first colon, and, for the schemes with
\* an authority (http, https, ftp), a non-empty host after the slashes.
\* ok = FALSE is the TypeError the constructor throws.
ParseURL(uri) ==
    LET cs == Chars(uri)
        colons == { i \in 1..Len(cs) : cs[i] = ":" }
    IN IF colons = {} THEN [ok |-> FALSE, protocol |-> ""]
       ELSE LET c == CHOOSE i \in colons : \A j \in colons : i <= j
                scheme == Join(SubSeq(cs, 1, c - 1))
                rest == SelectSeq(SubSeq(cs, c + 1, Len(cs)), LAMBDA x : x # "/")
                schemeOk == /\ c > 1
                            /\ cs[1] \in Letters
                            /\ \A i \in 1..(c - 1) :
                                  cs[i] \in Letters \cup Digits \cup { "+", "-", "." }
                special == scheme \in { "http", "https", "ftp" }
            IN IF schemeOk /\ (special => rest # << >>)
               THEN [ok |-> TRUE, protocol |-> scheme \o ":"]
               ELSE [ok |-> FALSE, protocol |-> ""]

(***************************************************************************)
(* utils: response helpers.  The body is the value JSON.stringify          *)
(* serialises; the records below hold only strings, booleans, numbers and  *)
(* arrays of strings, which JSON.stringify keeps as they are.              *)
(***************************************************************************)
CorsHeaders ==
    [ContentType |-> "application/json",
     AccessControlAllowOrigin |-> "*",
     AccessControlAllowHeaders |-> "Content-Type,Authorization",
     AccessControlAllowMethods |-> "GET,POST,OPTIONS"]

createResponse(statusCode, body) ==
    [statusCode |-> statusCode, headers |-> CorsHeaders, body |-> body]

\* createErrorResponse(error, description, statusCode = 400)
DefaultErrorStatus == 400

createErrorResponse(error, description) ==
    createResponse(DefaultErrorStatus,
                   [error |-> error, error_description |-> description])

\* The catch block of every exports.handler.
ServerErrorStatus == 500

ServerErrorAs400(message) ==
    createResponse(DefaultErrorStatus,
                   [error |-> "server_error",
                    error_description |-> "Internal server error: " \o message])

CatchResponse(message) ==
    createResponse(ServerErrorStatus,
                   [error |-> "server_error",
                    error_description |-> "Internal server error: " \o message])

NoResp == EmptyObject

(***************************************************************************)
(* utils: DynamoDB accessors.  A table is a function from the primary key  *)
(* to the item; GetCommand of a missing key has no Item (undefined).       *)
(***************************************************************************)
Found(table, key) == key \in DOMAIN table

\* A put that replaces the table's content by the one item.
putItemAlone(table, key, item) == (key :> item)

\* A put that keeps the item already stored under the key.
putItemIfAbsent(table, key, item) ==
    [k \in DOMAIN table \cup {key} |-> IF k \in DOMAIN table THEN table[k] ELSE item]

\* putItem: PutCommand replaces the whole item stored under the item's key.
putItem(table, key, item) ==
    [k \in DOMAIN table \cup {key} |-> IF k = key THEN item ELSE table[k]]

\* queryItems(TABLES.users, 'username-index', 'username = :username', ...)
UsersNamed(username) == { id \in DOMAIN users : users[id].username = username }

\* uuidv4(): an identifier never handed out before.
Uuid(n) == "uuid-" \o ToString(n)

(***************************************************************************)
(* utils: bcrypt.  hash(password, 10) draws a random salt; compare accepts *)
(* the plaintext the hash was made from.                                   *)
(***************************************************************************)
SaltRounds == 10

Salts == { "salt-a", "salt-b" }

\* bcrypt reads the first 72 bytes of the password and ignores the rest.
BcryptMaxBytes == 72

BcryptInput(password) ==
    IF Len(password) <= BcryptMaxBytes THEN password
    ELSE Join(SubSeq(Chars(password), 1, BcryptMaxBytes))

BcryptHash(password, salt) ==
    [rounds |-> SaltRounds, salt |-> salt, of |-> BcryptInput(password)]

\* bcrypt.compare(password, hash): hash the password with the hash's salt.
BcryptCompare(password, hash) == BcryptHash(password, hash.salt) = hash

(***************************************************************************)
(* utils: the items the constructors build.                                *)
(***************************************************************************)
\* createUser(username, password, email): lines 353-361
NewUser(userId, username, passwordHash, email, t) ==
    [user_id |-> userId, username |-> username, password_hash |-> passwordHash,
     email |-> email, email_verified |-> FALSE, created_at |-> t, updated_at |-> t]

\* handleCreateUser: const { password_hash, ...userResponse } = user
KeepHash(user) == user

StripHash(user) == Without(user, {"password_hash"})

\* updateUserPassword: user.password_hash = ...; user.updated_at = ...
WithPassword(user, passwordHash, t) ==
    Spread(user, [password_hash |-> passwordHash, updated_at |-> t])

\* createClient(clientId, clientSecret, redirectUris, name, description)
NewClient(clientId, clientSecret, redirectUris, name, description, t) ==
    [client_id |-> clientId, client_secret |-> clientSecret,
     redirect_uris |-> redirectUris, name |-> name, description |-> description,
     created_at |-> t, updated_at |-> t]

\* updateClient: { ...client, ...updates, client_id: clientId, updated_at }
UpdatedClientNoPin(client, updates, clientId, t) ==
    Spread(Spread(client, updates), [updated_at |-> t])

UpdatedClient(client, updates, clientId, t) ==
    Spread(Spread(client, updates), [client_id |-> clientId, updated_at |-> t])

\* createApplication(applicationId, clientId, name, description, account)
NewApplication(appId, clientId, name, description, account, t) ==
    [application_id |-> appId, client_id |-> clientId, name |-> name,
     description |-> description, account |-> account,
     created_at |-> t, updated_at |-> t]

\* updateApplication: { ...application, ...updates, application_id, updated_at }
UpdatedApplication(application, updates, applicationId, t) ==
    Spread(Spread(application, updates),
           [application_id |-> applicationId, updated_at |-> t])

\* createUserApplication(userId, applicationId, account)
NewUserApplication(userId, applicationId, account, t) ==
    [user_id |-> userId, application_id |-> applicationId, account |-> account,
     created_at |-> t, updated_at |-> t]

\* updateUserApplication: { ...userApplication, ...updates, user_id,
\* application_id, updated_at }
UpdatedUserApplication(userApplication, updates, userId, applicationId, t) ==
    Spread(Spread(userApplication, updates),
           [user_id |-> userId, application_id |-> applicationId, updated_at |-> t])

\* The primary key DynamoDB stores an item under.
UserApplicationKey(item) == << item.user_id, item.application_id >>

(***************************************************************************)
(* Input events.  Each set holds a well-formed request of the console test *)
(* inputs and the requests that differ from it in one field.               *)
(***************************************************************************)
\* JSON null as the whole event.
NullEvent == [null |-> TRUE]

IsNull(e) == Has(e, "null")

With(o, f, v) == Spread(o, (f :> v))

CreateUserEvent ==
    [operation |-> "createUser", username |-> "alice", password |-> "Passw0rd!",
     email |-> "a@b.co"]

ResetPasswordEvent ==
    [operation |-> "resetPassword", username |-> "alice", newPassword |-> "N3wPass!"]

UserEvents ==
    { NullEvent, EmptyObject, [operation |-> "deleteUser"],
      CreateUserEvent,
      With(CreateUserEvent, "password", "password"),
      With(CreateUserEvent, "password", "short"),
      Without(CreateUserEvent, {"password"}),
      Without(CreateUserEvent, {"username"}),
      With(CreateUserEvent, "username", ""),
      With(CreateUserEvent, "username", "al"),
      Without(CreateUserEvent, {"email"}),
      With(CreateUserEvent, "email", "a@b"),
      ResetPasswordEvent,
      With(ResetPasswordEvent, "newPassword", "short"),
      Without(ResetPasswordEvent, {"newPassword"}),
      Without(ResetPasswordEvent, {"username"}) }

CreateClientEvent ==
    [operation |-> "createClient", client_id |-> "web", client_secret |-> "s3cret",
     redirect_uris |-> JsArray(<< "https://a/cb" >>), name |-> "Web"]

UpdateClientEvent == [operation |-> "updateClient", client_id |-> "web"]

ClientEvents ==
    { NullEvent, EmptyObject, [operation |-> "deleteClient"],
      CreateClientEvent,
      With(CreateClientEvent, "description", "console"),
      Without(CreateClientEvent, {"client_id"}),
      With(CreateClientEvent, "client_id", "w!b"),
      With(CreateClientEvent, "client_id", "al"),
      Without(CreateClientEvent, {"client_secret"}),
      Without(CreateClientEvent, {"name"}),
      Without(CreateClientEvent, {"redirect_uris"}),
      With(CreateClientEvent, "redirect_uris", JsString("https://a/cb")),
      With(CreateClientEvent, "redirect_uris", JsArray(<< >>)),
      With(CreateClientEvent, "redirect_uris", JsArray(<< "ftp://bad" >>)),
      With(CreateClientEvent, "redirect_uris", JsArray(<< "http://b/cb", "nourl" >>)),
      UpdateClientEvent,
      With(UpdateClientEvent, "name", "Web2"),
      With(UpdateClientEvent, "client_secret", "n3w"),
      With(UpdateClientEvent, "redirect_uris", JsArray(<< "http://b/cb" >>)),
      With(UpdateClientEvent, "redirect_uris", JsArray(<< >>)),
      With(UpdateClientEvent, "redirect_uris", JsArray(<< "ftp://bad" >>)),
      With(UpdateClientEvent, "redirect_uris", JsArray(<< "nourl" >>)),
      With(UpdateClientEvent, "redirect_uris", JsString("")),
      [operation |-> "updateClient", name |-> "Web2"] }

CreateApplicationEvent ==
    [operation |-> "createApplication", application_id |-> "app",
     client_id |-> "web", name |-> "Prod"]

UpdateApplicationEvent == [operation |-> "updateApplication", application_id |-> "app"]

ApplicationEvents ==
    { NullEvent, EmptyObject, [operation |-> "deleteApplication"],
      CreateApplicationEvent,
      With(With(CreateApplicationEvent, "description", "prod"), "account", "acct"),
      Without(CreateApplicationEvent, {"application_id"}),
      With(CreateApplicationEvent, "application_id", "a p"),
      Without(CreateApplicationEvent, {"client_id"}),
      With(CreateApplicationEvent, "application_id", "ghost"),
      With(With(CreateApplicationEvent, "application_id", "ghost"),
           "description", "prod"),
      With(CreateApplicationEvent, "client_id", "ghost"),
      Without(CreateApplicationEvent, {"name"}),
      UpdateApplicationEvent,
      With(UpdateApplicationEvent, "name", "Prod2"),
      With(UpdateApplicationEvent, "account", "acct2"),
      With(UpdateApplicationEvent, "client_id", "web"),
      With(UpdateApplicationEvent, "client_id", "ghost"),
      With(UpdateApplicationEvent, "client_id", ""),
      [operation |-> "updateApplication", name |-> "Prod2"] }

CreateUserApplicationEvent ==
    [operation |-> "createUserApplication", user_id |-> Uuid(1),
     application_id |-> "app", account |-> "acct"]

UpdateUserApplicationEvent ==
    [operation |-> "updateUserApplication", user_id |-> Uuid(1),
     application_id |-> "app"]

UserApplicationEvents ==
    { NullEvent, EmptyObject, [operation |-> "deleteUserApplication"],
      CreateUserApplicationEvent,
      Without(CreateUserApplicationEvent, {"account"}),
      Without(CreateUserApplicationEvent, {"user_id"}),
      Without(CreateUserApplicationEvent, {"application_id"}),
      With(CreateUserApplicationEvent, "user_id", "nobody"),
      With(CreateUserApplicationEvent, "application_id", "ghost"),
      With(With(CreateUserApplicationEvent, "user_id", "nobody"),
           "application_id", "ghost"),
      UpdateUserApplicationEvent,
      With(UpdateUserApplicationEvent, "account", "acct2"),
      With(UpdateUserApplicationEvent, "role", "admin"),
      With(With(UpdateUserApplicationEvent, "user_id", "nobody"), "account", "acct2"),
      [operation |-> "updateUserApplication", application_id |-> "app",
       account |-> "acct2"] }

(***************************************************************************)
(* The handlers up to their first await.  The result says where the        *)
(* invocation is suspended, or, with pc = "done", what it returned.        *)
(***************************************************************************)
Done(r) == [pc |-> "done", resp |-> r, loc |-> EmptyObject]

Await(label, l) == [pc |-> label, resp |-> NoResp, loc |-> l]

InvalidRequest(description) == Done(createErrorResponse("invalid_request", description))

MinPasswordLength == 8

\* management-user: handleCreateUser, lines 69-93
handleCreateUser(e) ==
    IF ~TruthyStr(e, "username") \/ ~TruthyStr(e, "password") \/ ~TruthyStr(e, "email")
    THEN InvalidRequest("Missing required parameters: username, password, and email are required")
    ELSE IF ~MatchesId(e.username, 3, 50)
    THEN InvalidRequest("Invalid username format. Username must be 3-50 characters and contain only letters, numbers, dashes, and underscores")
    ELSE IF ~MatchesEmail(e.email)
    THEN InvalidRequest("Invalid email format")
    ELSE IF Len(e.password) < MinPasswordLength
    THEN InvalidRequest("Password must be at least 8 characters long")
    ELSE Await("cu_query", EmptyObject)

\* management-user: handleResetPassword, lines 113-127
handleResetPassword(e) ==
    IF ~TruthyStr(e, "username") \/ ~TruthyStr(e, "newPassword")
    THEN InvalidRequest("Missing required parameters: username and newPassword are required")
    ELSE IF Len(e.newPassword) < MinPasswordLength
    THEN InvalidRequest("Password must be at least 8 characters long")
    ELSE Await("rp_query", EmptyObject)

\* The for loop over the redirect URIs: the description of the first URI
\* that is rejected, or "" when the loop runs to its end.
RECURSIVE RedirectUriError(_)
RedirectUriError(uris) ==
    IF uris = << >> THEN ""
    ELSE LET url == ParseURL(Head(uris))
         IN IF ~url.ok
            THEN "Invalid redirect URI format: " \o Head(uris)
            ELSE IF url.protocol # "https:" /\ url.protocol # "http:"
            THEN "Invalid redirect URI protocol: " \o Head(uris) \o ". Must use http or https"
            ELSE RedirectUriError(Tail(uris))

\* management-client: handleCreateClient, lines 68-99
handleCreateClient(e) ==
    IF \/ ~TruthyStr(e, "client_id") \/ ~TruthyStr(e, "client_secret")
       \/ ~Has(e, "redirect_uris") \/ ~TruthyVal(e.redirect_uris)
       \/ ~TruthyStr(e, "name")
    THEN InvalidRequest("Missing required parameters: client_id, client_secret, redirect_uris, and name are required")
    ELSE IF ~MatchesId(e.client_id, 3, 100)
    THEN InvalidRequest("Invalid client_id format. Must be 3-100 characters and contain only letters, numbers, dashes, and underscores")
    ELSE IF ~IsArray(e.redirect_uris) \/ Len(e.redirect_uris.items) = 0
    THEN InvalidRequest("redirect_uris must be a non-empty array of URLs")
    ELSE IF RedirectUriError(e.redirect_uris.items) # ""
    THEN InvalidRequest(RedirectUriError(e.redirect_uris.items))
    ELSE Await("cc_get", EmptyObject)

\* const { client_id, ...updates } = event; delete updates.operation
ClientUpdates(e) == Without(e, {"client_id", "operation"})

\* if (updates.redirect_uris) { ... }: lines 133-148
UpdateValidatesRedirectUris(updates) ==
    Has(updates, "redirect_uris") /\ TruthyVal(updates.redirect_uris)

\* management-client: handleUpdateClient, lines 116-151
handleUpdateClient(e) ==
    LET updates == ClientUpdates(e)
    IN IF ~TruthyStr(e, "client_id")
       THEN InvalidRequest("Missing required parameter: client_id")
       ELSE IF DOMAIN updates = {}
       THEN InvalidRequest("No update parameters provided")
       ELSE IF /\ UpdateValidatesRedirectUris(updates)
               /\ (~IsArray(updates.redirect_uris) \/ Len(updates.redirect_uris.items) = 0)
       THEN InvalidRequest("redirect_uris must be a non-empty array of URLs")
       ELSE IF /\ UpdateValidatesRedirectUris(updates)
               /\ RedirectUriError(updates.redirect_uris.items) # ""
       THEN InvalidRequest(RedirectUriError(updates.redirect_uris.items))
       ELSE Await("uc_hget", EmptyObject)

\* management-application: handleCreateApplication, lines 781-795
handleCreateApplication(e) ==
    IF ~TruthyStr(e, "client_id") \/ ~TruthyStr(e, "name")
    THEN InvalidRequest("Missing required parameters: client_id and name are required")
    ELSE IF TruthyStr(e, "application_id") /\ ~MatchesId(e.application_id, 3, 100)
    THEN InvalidRequest("Invalid application_id format. Must be 3-100 characters and contain only letters, numbers, dashes, and underscores")
    ELSE Await("ca_getClient", EmptyObject)

\* const { application_id, ...updates } = event; delete updates.operation
ApplicationUpdates(e) == Without(e, {"application_id", "operation"})

\* if (updates.client_id) { ... }: lines 843-848
UpdateChecksClient(updates) == TruthyStr(updates, "client_id")

\* management-application: handleUpdateApplication, lines 826-851
handleUpdateApplication(e) ==
    LET updates == ApplicationUpdates(e)
    IN IF ~TruthyStr(e, "application_id")
       THEN InvalidRequest("Missing required parameter: application_id")
       ELSE IF DOMAIN updates = {}
       THEN InvalidRequest("No update parameters provided")
       ELSE IF UpdateChecksClient(updates)
       THEN Await("ua_getClient", EmptyObject)
       ELSE Await("ua_hget", EmptyObject)

\* management-user-application: handleCreateUserApplication, lines 67-76
handleCreateUserApplication(e) ==
    IF ~TruthyStr(e, "user_id") \/ ~TruthyStr(e, "application_id")
    THEN InvalidRequest("Missing required parameters: user_id and application_id are required")
    ELSE Await("cm_getUser", EmptyObject)

\* const { user_id, application_id, ...updates } = event; delete updates.operation
UserApplicationUpdates(e) == Without(e, {"user_id", "application_id", "operation"})

\* management-user-application: handleUpdateUserApplication, lines 109-126
handleUpdateUserApplication(e) ==
    IF ~TruthyStr(e, "user_id") \/ ~TruthyStr(e, "application_id")
    THEN InvalidRequest("Missing required parameters: user_id and application_id are required")
    ELSE IF DOMAIN UserApplicationUpdates(e) = {}
    THEN InvalidRequest("No update parameters provided")
    ELSE Await("um_hget", EmptyObject)

\* exports.handler of the four functions: the try block, the operation
\* switch, and the catch block for an event that cannot be destructured.
Operations(f) ==
    CASE f = "management-user" -> { "createUser", "resetPassword" }
      [] f = "management-client" -> { "createClient", "updateClient" }
      [] f = "management-application" -> { "createApplication", "updateApplication" }
      [] f = "management-user-application" ->
             { "createUserApplication", "updateUserApplication" }

handler(f, e) ==
    IF IsNull(e)
    THEN Done(CatchResponse("Cannot destructure property 'operation' of 'event' as it is null."))
    ELSE IF ~TruthyStr(e, "operation")
    THEN InvalidRequest("Missing operation parameter")
    ELSE IF e.operation \notin Operations(f)
    THEN InvalidRequest("Unknown operation: " \o e.operation)
    ELSE CASE e.operation = "createUser" -> handleCreateUser(e)
           [] e.operation = "resetPassword" -> handleResetPassword(e)
           [] e.operation = "createClient" -> handleCreateClient(e)
           [] e.operation = "updateClient" -> handleUpdateClient(e)
           [] e.operation = "createApplication" -> handleCreateApplication(e)
           [] e.operation = "updateApplication" -> handleUpdateApplication(e)
           [] e.operation = "createUserApplication" -> handleCreateUserApplication(e)
           [] e.operation = "updateUserApplication" -> handleUpdateUserApplication(e)

(***************************************************************************)
(* Initial states: the empty tables of a fresh deployment, or the tables   *)
(* after the console workflow of the README (create a user, a client, an   *)
(* application, and then the mapping), each record built by the            *)
(* constructor that the workflow's handler calls.                          *)
(***************************************************************************)
EmptyTable == << >>

SeedPassword == "Passw0rd!"

SeedUser == NewUser(Uuid(1), "alice", BcryptHash(SeedPassword, "salt-a"), "a@b.co", 0)

SeedClient == NewClient("web", "s3cret", JsArray(<< "https://a/cb" >>), "Web", "", 0)

SeedApplication == NewApplication("app", "web", "Prod", "", "", 0)

SeedUserApplication == NewUserApplication(Uuid(1), "app", "acct", 0)

Seeds == { "fresh", "workflow", "mapped" }

InitStore(seed) ==
    /\ users = IF seed = "fresh" THEN EmptyTable
               ELSE putItem(EmptyTable, SeedUser.user_id, SeedUser)
    /\ clients = IF seed = "fresh" THEN EmptyTable
                 ELSE putItem(EmptyTable, SeedClient.client_id, SeedClient)
    /\ applications = IF seed = "fresh" THEN EmptyTable
                      ELSE putItem(EmptyTable, SeedApplication.application_id,
                                   SeedApplication)
    /\ userApplications = IF seed = "mapped"
                          THEN putItem(EmptyTable,
                                       UserApplicationKey(SeedUserApplication),
                                       SeedUserApplication)
                          ELSE EmptyTable
    /\ uaCreated = IF seed = "mapped"
                   THEN { UserApplicationKey(SeedUserApplication) } ELSE {}
    /\ uuidCount = IF seed = "fresh" THEN 0 ELSE 1
    /\ lastSet = IF seed = "fresh" THEN EmptyObject
                 ELSE (SeedUser.username :> SeedPassword)

InitProcs ==
    /\ fn = [p \in Procs |-> ""]
    /\ pc = [p \in Procs |-> "idle"]
    /\ event = [p \in Procs |-> EmptyObject]
    /\ loc = [p \in Procs |-> EmptyObject]
    /\ resp = [p \in Procs |-> NoResp]
    /\ written = [p \in Procs |-> << >>]
    /\ pre = [p \in Procs |-> EmptyObject]
    /\ threw = [p \in Procs |-> FALSE]
    /\ checked = [p \in Procs |-> 0]
    /\ started = 0
    /\ now = 0

\* utils, lines 165-166: let cachedIssuerUrl = null; let cacheTimestamp = null
\* (a cold process; null is modelled as "" and 0, both falsy as null is).
InitIssuer ==
    /\ cachedIssuerUrl = ""
    /\ cacheTimestamp = 0
    /\ clockMs = 1
    /\ ssmIssuer = [state |-> "present", value |-> "https://idp.example.com"]
    /\ ipc = "idle"
    /\ icall = EmptyObject
    /\ ihist = [fetchedAt |-> 0, cachedBy |-> 0, fetches |-> 0, advances |-> 0,
                called |-> FALSE, lastFailed |-> FALSE]

\* The signing-key parameter as the deployment creates it: present, with no
\* key material in it yet.  No utils call is in progress.
EmptyKeys == [private_key |-> "", public_key |-> ""]

\* The PEM strings of a 2048-bit RSA key, as JSON.stringify writes them: a
\* PKCS#8 private key of 1704 characters with 27 escaped newlines, an SPKI
\* public key of 451 with 8.
PemLength2048 == [private_key |-> 1704 + 27, public_key |-> 451 + 8]

InitKeyCallState ==
    /\ keyCount = 0
    /\ ktime = 0
    /\ kop = [p \in Procs |-> ""]
    /\ kpc = [p \in Procs |-> "idle"]
    /\ kloc = [p \in Procs |-> EmptyObject]
    /\ tokens = {}
    /\ khist = [returned |-> {}, calls |-> 0, advances |-> 0]

InitKeyCalls == InitKeyCallState /\ pemLength = PemLength2048

InitKeys == ssmKeys = [state |-> "present", value |-> EmptyKeys] /\ InitKeyCalls

Init == (\E seed \in Seeds : InitStore(seed)) /\ InitProcs /\ InitIssuer /\ InitKeys

(***************************************************************************)
(* Invocation.                                                             *)
(***************************************************************************)
Snapshot ==
    [usernames |-> { users[id].username : id \in DOMAIN users },
     users |-> DOMAIN users,
     clients |-> DOMAIN clients,
     applications |-> DOMAIN applications,
     userApplications |-> DOMAIN userApplications]

Finish(p, r) ==
    /\ pc' = [pc EXCEPT ![p] = "done"]
    /\ resp' = [resp EXCEPT ![p] = r]
    /\ loc' = [loc EXCEPT ![p] = EmptyObject]

Goto(p, label, l) ==
    /\ pc' = [pc EXCEPT ![p] = label]
    /\ loc' = [loc EXCEPT ![p] = l]
    /\ UNCHANGED resp

Log(p, table, item) ==
    written' = [written EXCEPT ![p] = Append(@, [table |-> table, item |-> item])]

\* What a utils function hands back: to the handler, which wraps it in its
\* response, or to a caller that used the exported function directly.
Result(p, handlerResponse, value) ==
    IF fn[p] = "utils" THEN [returned |-> value] ELSE handlerResponse

Thrown(p, message) ==
    IF fn[p] = "utils" THEN [thrown |-> message] ELSE CatchResponse(message)

Invoke(p, f, e) ==
    /\ pc[p] = "idle"
    /\ started < MaxInvocations
    /\ started' = started + 1
    /\ fn' = [fn EXCEPT ![p] = f]
    /\ event' = [event EXCEPT ![p] = e]
    /\ pc' = [pc EXCEPT ![p] = handler(f, e).pc]
    /\ resp' = [resp EXCEPT ![p] = handler(f, e).resp]
    /\ loc' = [loc EXCEPT ![p] = handler(f, e).loc]
    /\ written' = [written EXCEPT ![p] = << >>]
    /\ pre' = [pre EXCEPT ![p] = Snapshot]
    /\ threw' = [threw EXCEPT ![p] = FALSE]
    /\ checked' = [checked EXCEPT ![p] = 0]
    /\ UNCHANGED << storeVars, uaCreated, lastSet, uuidCount, now, issuerVars, keyVars >>

InvokeUser(p) == \E e \in UserEvents : Invoke(p, "management-user", e)

InvokeClient(p) == \E e \in ClientEvents : Invoke(p, "management-client", e)

InvokeApplication(p) ==
    \E e \in ApplicationEvents : Invoke(p, "management-application", e)

InvokeUserApplication(p) ==
    \E e \in UserApplicationEvents : Invoke(p, "management-user-application", e)

\* The caller has the response; the process is free for the next invocation.
Return(p) ==
    /\ pc[p] = "done"
    /\ pc' = [pc EXCEPT ![p] = "idle"]
    /\ fn' = [fn EXCEPT ![p] = ""]
    /\ event' = [event EXCEPT ![p] = EmptyObject]
    /\ resp' = [resp EXCEPT ![p] = NoResp]
    /\ written' = [written EXCEPT ![p] = << >>]
    /\ pre' = [pre EXCEPT ![p] = EmptyObject]
    /\ threw' = [threw EXCEPT ![p] = FALSE]
    /\ checked' = [checked EXCEPT ![p] = 0]
    /\ UNCHANGED << storeVars, uaCreated, lastSet, uuidCount, now, loc, started, issuerVars,
                    keyVars >>

\* Time passes.
Tick ==
    /\ now < MaxClock
    /\ now' = now + 1
    /\ UNCHANGED << storeVars, uaCreated, lastSet, uuidCount, procVars, issuerVars, keyVars >>

\* What no step of an invocation changes.
stepFrame == << fn, event, pre, started, now, issuerVars, keyVars >>

\* What no step of an invocation changes unless a dependency fails.
okFrame == << stepFrame, threw, checked >>

(***************************************************************************)
(* management-user                                                         *)
(***************************************************************************)
\* handleCreateUser lines 93-99 and createUser line 347:
\* await getUserByUsername(username), then the check and uuidv4().
CreateUser_Query(p) ==
    /\ pc[p] = "cu_query"
    /\ IF UsersNamed(event[p].username) # {}
       THEN /\ Finish(p, createErrorResponse("invalid_request", "Username already exists"))
            /\ UNCHANGED uuidCount
       ELSE /\ Goto(p, "cu_put", [userId |-> Uuid(uuidCount + 1)])
            /\ uuidCount' = uuidCount + 1
    /\ UNCHANGED << storeVars, uaCreated, lastSet, written, okFrame >>

\* createUser lines 351-364 and handleCreateUser lines 102-107:
\* await bcrypt.hash, build the item, await putItem, return the response.
CreateUser_Put(p) ==
    /\ pc[p] = "cu_put"
    /\ \E salt \in Salts :
          LET e == event[p]
              user == NewUser(loc[p].userId, e.username,
                              BcryptHash(e.password, salt), e.email, now)
          IN /\ users' = putItem(users, user.user_id, user)
             /\ Log(p, "users", user)
             /\ lastSet' = Spread(lastSet, (e.username :> e.password))
             /\ Finish(p, createResponse(200,
                           [message |-> "User created successfully",
                            user |-> StripHash(user)]))
    /\ UNCHANGED << clients, applications, userApplications, uaCreated, uuidCount,
                    okFrame >>

\* handleResetPassword lines 127-133: await getUserByUsername(username);
\* the query's first item is the user whose password is reset.
ResetPassword_Query(p) ==
    /\ pc[p] = "rp_query"
    /\ IF UsersNamed(event[p].username) = {}
       THEN Finish(p, createErrorResponse("invalid_request", "User not found"))
       ELSE \E id \in UsersNamed(event[p].username) :
               Goto(p, "rp_get", [userId |-> users[id].user_id])
    /\ UNCHANGED << storeVars, uaCreated, lastSet, uuidCount, written, okFrame >>

\* updateUserPassword lines 379-380: await getUserById(userId); with no
\* such user it returns null and the handler still answers 200.
ResetPassword_Get(p) ==
    /\ pc[p] = "rp_get"
    /\ IF ~Found(users, loc[p].userId)
       THEN Finish(p, createResponse(200,
                       [message |-> "Password reset successfully",
                        username |-> event[p].username]))
       ELSE Goto(p, "rp_put", [user |-> users[loc[p].userId]])
    /\ UNCHANGED << storeVars, uaCreated, lastSet, uuidCount, written, okFrame >>

\* updateUserPassword lines 383-389 and handleResetPassword lines 135-138.
ResetPassword_Put(p) ==
    /\ pc[p] = "rp_put"
    /\ \E salt \in Salts :
          LET user == WithPassword(loc[p].user,
                                   BcryptHash(event[p].newPassword, salt), now)
          IN /\ users' = putItem(users, user.user_id, user)
             /\ Log(p, "users", user)
             /\ lastSet' = Spread(lastSet, (user.username :> event[p].newPassword))
             /\ Finish(p, createResponse(200,
                           [message |-> "Password reset successfully",
                            username |-> event[p].username]))
    /\ UNCHANGED << clients, applications, userApplications, uaCreated, uuidCount,
                    okFrame >>

(***************************************************************************)
(* management-client                                                       *)
(***************************************************************************)
\* handleCreateClient without the check of lines 100-102.
CreateClient_GetUnchecked(p) ==
    /\ pc[p] = "cc_get"
    /\ Goto(p, "cc_put", EmptyObject)
    /\ UNCHANGED << storeVars, uaCreated, lastSet, uuidCount, written, okFrame >>

\* handleCreateClient lines 99-102: await getClientById(client_id).
CreateClient_Get(p) ==
    /\ pc[p] = "cc_get"
    /\ IF Found(clients, event[p].client_id)
       THEN Finish(p, createErrorResponse("invalid_request", "Client ID already exists"))
       ELSE Goto(p, "cc_put", EmptyObject)
    /\ UNCHANGED << storeVars, uaCreated, lastSet, uuidCount, written, okFrame >>

\* createClient (utils lines 513-526) and handleCreateClient lines 105-110.
CreateClient_Put(p) ==
    /\ pc[p] = "cc_put"
    /\ LET e == event[p]
           client == NewClient(e.client_id, e.client_secret, e.redirect_uris, e.name,
                               IF TruthyStr(e, "description") THEN e.description ELSE "",
                               now)
       IN /\ clients' = putItem(clients, client.client_id, client)
          /\ Log(p, "clients", client)
          /\ Finish(p, createResponse(200,
                        [message |-> "Client created successfully",
                         client |-> client]))
    /\ UNCHANGED << users, applications, userApplications, uaCreated, lastSet, uuidCount,
                    okFrame >>

\* handleUpdateClient without the check of lines 152-154.
UpdateClient_HandlerGetUnchecked(p) ==
    /\ pc[p] = "uc_hget"
    /\ Goto(p, "uc_get", [clientId |-> event[p].client_id,
                          updates |-> ClientUpdates(event[p])])
    /\ UNCHANGED << storeVars, uaCreated, lastSet, uuidCount, written, okFrame >>

\* handleUpdateClient lines 151-157: await getClientById(client_id), then
\* the call of updateClient(client_id, updates).
UpdateClient_HandlerGet(p) ==
    /\ pc[p] = "uc_hget"
    /\ IF ~Found(clients, event[p].client_id)
       THEN Finish(p, createErrorResponse("invalid_request", "Client not found"))
       ELSE Goto(p, "uc_get", [clientId |-> event[p].client_id,
                               updates |-> ClientUpdates(event[p])])
    /\ UNCHANGED << storeVars, uaCreated, lastSet, uuidCount, written, okFrame >>

\* updateClient (utils lines 535-538): await getClientById(clientId).
UpdateClient_Get(p) ==
    /\ pc[p] = "uc_get"
    /\ IF ~Found(clients, loc[p].clientId)
       THEN Finish(p, Thrown(p, "Client not found"))
       ELSE Goto(p, "uc_put", Spread(loc[p], [client |-> clients[loc[p].clientId]]))
    /\ UNCHANGED << storeVars, uaCreated, lastSet, uuidCount, written, okFrame >>

\* updateClient (utils lines 540-548) and handleUpdateClient lines 159-162.
UpdateClient_Put(p) ==
    /\ pc[p] = "uc_put"
    /\ LET client == UpdatedClient(loc[p].client, loc[p].updates, loc[p].clientId, now)
       IN /\ clients' = putItem(clients, client.client_id, client)
          /\ Log(p, "clients", client)
          /\ Finish(p, Result(p, createResponse(200,
                                  [message |-> "Client updated successfully",
                                   client |-> client]),
                              client))
    /\ UNCHANGED << users, applications, userApplications, uaCreated, lastSet, uuidCount,
                    okFrame >>

(***************************************************************************)
(* management-application                                                  *)
(***************************************************************************)
\* handleCreateApplication lines 795-801: await getClientById(client_id).
CreateApplication_GetClient(p) ==
    /\ pc[p] = "ca_getClient"
    /\ IF ~Found(clients, event[p].client_id)
       THEN /\ Finish(p, createErrorResponse("invalid_request",
                          "Client ID not found. Please create the client first"))
            /\ UNCHANGED uuidCount
       ELSE IF TruthyStr(event[p], "application_id")
       THEN /\ Goto(p, "ca_getApp", EmptyObject)
            /\ UNCHANGED uuidCount
       ELSE \* createApplication line 571: applicationId || uuidv4()
            /\ Goto(p, "ca_put", [appId |-> Uuid(uuidCount + 1)])
            /\ uuidCount' = uuidCount + 1
    /\ checked' = [checked EXCEPT ![p] = @ + 1]
    /\ UNCHANGED << storeVars, uaCreated, lastSet, written, stepFrame, threw >>

\* handleCreateApplication lines 802-806: await getApplicationById(application_id).
CreateApplication_GetApp(p) ==
    /\ pc[p] = "ca_getApp"
    /\ IF Found(applications, event[p].application_id)
       THEN Finish(p, createErrorResponse("invalid_request", "Application ID already exists"))
       ELSE Goto(p, "ca_put", [appId |-> event[p].application_id])
    /\ UNCHANGED << storeVars, uaCreated, lastSet, uuidCount, written, okFrame >>

\* createApplication (utils lines 573-584), handleCreateApplication lines 817-820.
CreateApplication_Put(p) ==
    /\ pc[p] = "ca_put"
    /\ LET e == event[p]
           application ==
               NewApplication(loc[p].appId, e.client_id, e.name,
                              IF TruthyStr(e, "description") THEN e.description ELSE "",
                              IF TruthyStr(e, "account") THEN e.account ELSE "",
                              now)
       IN /\ applications' = putItem(applications, application.application_id,
                                     application)
          /\ Log(p, "applications", application)
          /\ Finish(p, createResponse(200,
                        [message |-> "Application created successfully",
                         application |-> application]))
    /\ UNCHANGED << users, clients, userApplications, uaCreated, lastSet, uuidCount, okFrame >>

\* handleUpdateApplication lines 844-848: await getClientById(updates.client_id).
UpdateApplication_GetClient(p) ==
    /\ pc[p] = "ua_getClient"
    /\ IF ~Found(clients, event[p].client_id)
       THEN Finish(p, createErrorResponse("invalid_request",
                       "Client ID not found. Cannot update to non-existent client"))
       ELSE Goto(p, "ua_hget", EmptyObject)
    /\ checked' = [checked EXCEPT ![p] = @ + 1]
    /\ UNCHANGED << storeVars, uaCreated, lastSet, uuidCount, written, stepFrame, threw >>

\* handleUpdateApplication lines 851-857: await getApplicationById(application_id),
\* then the call of updateApplication(application_id, updates).
UpdateApplication_HandlerGet(p) ==
    /\ pc[p] = "ua_hget"
    /\ IF ~Found(applications, event[p].application_id)
       THEN Finish(p, createErrorResponse("invalid_request", "Application not found"))
       ELSE Goto(p, "ua_get", [applicationId |-> event[p].application_id,
                               updates |-> ApplicationUpdates(event[p])])
    /\ UNCHANGED << storeVars, uaCreated, lastSet, uuidCount, written, okFrame >>

\* updateApplication (utils lines 594-597): await getApplicationById(applicationId).
UpdateApplication_Get(p) ==
    /\ pc[p] = "ua_get"
    /\ IF ~Found(applications, loc[p].applicationId)
       THEN Finish(p, Thrown(p, "Application not found"))
       ELSE Goto(p, "ua_put",
                 Spread(loc[p], [application |-> applications[loc[p].applicationId]]))
    /\ UNCHANGED << storeVars, uaCreated, lastSet, uuidCount, written, okFrame >>

\* updateApplication (utils lines 599-607), handleUpdateApplication lines 859-862.
UpdateApplication_Put(p) ==
    /\ pc[p] = "ua_put"
    /\ LET application == UpdatedApplication(loc[p].application, loc[p].updates,
                                             loc[p].applicationId, now)
       IN /\ applications' = putItem(applications, application.application_id,
                                     application)
          /\ Log(p, "applications", application)
          /\ Finish(p, Result(p, createResponse(200,
                                  [message |-> "Application updated successfully",
                                   application |-> application]),
                              application))
    /\ UNCHANGED << users, clients, userApplications, uaCreated, lastSet, uuidCount, okFrame >>

(***************************************************************************)
(* management-user-application                                             *)
(***************************************************************************)
\* handleCreateUserApplication without the check of lines 77-79.
CreateUserApplication_GetUserUnchecked(p) ==
    /\ pc[p] = "cm_getUser"
    /\ Goto(p, "cm_getApp", EmptyObject)
    /\ checked' = [checked EXCEPT ![p] = @ + 1]
    /\ UNCHANGED << storeVars, uaCreated, lastSet, uuidCount, written, stepFrame, threw >>

\* handleCreateUserApplication lines 76-79: await getUserById(user_id).
CreateUserApplication_GetUser(p) ==
    /\ pc[p] = "cm_getUser"
    /\ IF ~Found(users, event[p].user_id)
       THEN Finish(p, createErrorResponse("invalid_request",
                       "User ID not found. Please create the user first"))
       ELSE Goto(p, "cm_getApp", EmptyObject)
    /\ checked' = [checked EXCEPT ![p] = @ + 1]
    /\ UNCHANGED << storeVars, uaCreated, lastSet, uuidCount, written, stepFrame, threw >>

\* handleCreateUserApplication without the test of lines 83-85.
CreateUserApplication_GetAppUnchecked(p) ==
    /\ pc[p] = "cm_getApp"
    /\ Goto(p, "cm_getMapping", EmptyObject)
    /\ checked' = [checked EXCEPT ![p] = @ + 1]
    /\ UNCHANGED << storeVars, uaCreated, lastSet, uuidCount, written, stepFrame, threw >>

\* handleCreateUserApplication lines 82-85: await getApplicationById(application_id).
CreateUserApplication_GetApp(p) ==
    /\ pc[p] = "cm_getApp"
    /\ IF ~Found(applications, event[p].application_id)
       THEN Finish(p, createErrorResponse("invalid_request",
                       "Application ID not found. Please create the application first"))
       ELSE Goto(p, "cm_getMapping", EmptyObject)
    /\ checked' = [checked EXCEPT ![p] = @ + 1]
    /\ UNCHANGED << storeVars, uaCreated, lastSet, uuidCount, written, stepFrame, threw >>

\* handleCreateUserApplication answering 200 without a write when the mapping
\* is already there, instead of the 400 of lines 89-91.
CreateUserApplication_GetMappingIdempotent(p) ==
    /\ pc[p] = "cm_getMapping"
    /\ IF Found(userApplications, << event[p].user_id, event[p].application_id >>)
       THEN Finish(p, createResponse(200,
                       [message |-> "User-application mapping created successfully",
                        user_application |->
                           userApplications[<< event[p].user_id,
                                               event[p].application_id >>]]))
       ELSE Goto(p, "cm_put", EmptyObject)
    /\ UNCHANGED << storeVars, uaCreated, lastSet, uuidCount, written, okFrame >>

\* handleCreateUserApplication lines 88-91: await getUserApplication(user_id, application_id).
CreateUserApplication_GetMapping(p) ==
    /\ pc[p] = "cm_getMapping"
    /\ IF Found(userApplications, << event[p].user_id, event[p].application_id >>)
       THEN Finish(p, createErrorResponse("invalid_request",
                       "User-application mapping already exists. Use updateUserApplication to modify it"))
       ELSE Goto(p, "cm_put", EmptyObject)
    /\ UNCHANGED << storeVars, uaCreated, lastSet, uuidCount, written, okFrame >>

\* createUserApplication (utils lines 631-642), handler lines 100-103.
CreateUserApplication_Put(p) ==
    /\ pc[p] = "cm_put"
    /\ LET e == event[p]
           userApplication ==
               NewUserApplication(e.user_id, e.application_id,
                                  IF TruthyStr(e, "account") THEN e.account ELSE "",
                                  now)
       IN /\ userApplications' = putItem(userApplications,
                                         UserApplicationKey(userApplication),
                                         userApplication)
          /\ uaCreated' = uaCreated \cup { UserApplicationKey(userApplication) }
          /\ Log(p, "userApplications", userApplication)
          /\ Finish(p, createResponse(200,
                        [message |-> "User-application mapping created successfully",
                         user_application |-> userApplication]))
    /\ UNCHANGED << users, clients, applications, lastSet, uuidCount, okFrame >>

\* handleUpdateUserApplication lines 126-132: await getUserApplication(...),
\* then the call of updateUserApplication(user_id, application_id, updates).
UpdateUserApplication_HandlerGet(p) ==
    /\ pc[p] = "um_hget"
    /\ IF ~Found(userApplications, << event[p].user_id, event[p].application_id >>)
       THEN Finish(p, createErrorResponse("invalid_request",
                       "User-application mapping not found. Use createUserApplication to create it first"))
       ELSE Goto(p, "um_get", [userId |-> event[p].user_id,
                               applicationId |-> event[p].application_id,
                               updates |-> UserApplicationUpdates(event[p])])
    /\ UNCHANGED << storeVars, uaCreated, lastSet, uuidCount, written, okFrame >>

\* updateUserApplication (utils lines 652-655): await getUserApplication(...).
UpdateUserApplication_Get(p) ==
    /\ pc[p] = "um_get"
    /\ IF ~Found(userApplications, << loc[p].userId, loc[p].applicationId >>)
       THEN Finish(p, Thrown(p, "User-application mapping not found"))
       ELSE Goto(p, "um_put",
                 Spread(loc[p], [userApplication |->
                     userApplications[<< loc[p].userId, loc[p].applicationId >>]]))
    /\ UNCHANGED << storeVars, uaCreated, lastSet, uuidCount, written, okFrame >>

\* updateUserApplication (utils lines 657-666), handler lines 134-137.
UpdateUserApplication_Put(p) ==
    /\ pc[p] = "um_put"
    /\ LET userApplication ==
               UpdatedUserApplication(loc[p].userApplication, loc[p].updates,
                                      loc[p].userId, loc[p].applicationId, now)
       IN /\ userApplications' = putItem(userApplications,
                                         UserApplicationKey(userApplication),
                                         userApplication)
          /\ Log(p, "userApplications", userApplication)
          /\ Finish(p, Result(p, createResponse(200,
                                  [message |-> "User-application mapping updated successfully",
                                   user_application |-> userApplication]),
                              userApplication))
    /\ UNCHANGED << users, clients, applications, uaCreated, lastSet, uuidCount, okFrame >>

(***************************************************************************)
(* The management plane: invocations of the four functions on separate     *)
(* processes, with every call of DynamoDB and bcrypt answering.            *)
(***************************************************************************)
Step(p) ==
    \/ CreateUser_Query(p) \/ CreateUser_Put(p)
    \/ ResetPassword_Query(p) \/ ResetPassword_Get(p) \/ ResetPassword_Put(p)
    \/ CreateClient_Get(p) \/ CreateClient_Put(p)
    \/ UpdateClient_HandlerGet(p) \/ UpdateClient_Get(p) \/ UpdateClient_Put(p)
    \/ CreateApplication_GetClient(p) \/ CreateApplication_GetApp(p)
    \/ CreateApplication_Put(p)
    \/ UpdateApplication_GetClient(p) \/ UpdateApplication_HandlerGet(p)
    \/ UpdateApplication_Get(p) \/ UpdateApplication_Put(p)
    \/ CreateUserApplication_GetUser(p) \/ CreateUserApplication_GetApp(p)
    \/ CreateUserApplication_GetMapping(p) \/ CreateUserApplication_Put(p)
    \/ UpdateUserApplication_HandlerGet(p) \/ UpdateUserApplication_Get(p)
    \/ UpdateUserApplication_Put(p)

Next ==
    \/ \E p \in Procs :
          \/ InvokeUser(p) \/ InvokeClient(p) \/ InvokeApplication(p)
          \/ InvokeUserApplication(p)
          \/ Step(p)
          \/ Return(p)
    \/ Tick

Spec == Init /\ [][Next]_vars

(***************************************************************************)
(* The same, with dependencies that may fail: a call of DynamoDB or bcrypt *)
(* the invocation is waiting for rejects, and the rejection propagates to  *)
(* the catch block of exports.handler.                                     *)
(***************************************************************************)
Awaiting(p) == pc[p] \notin { "idle", "done" }

DependencyFails(p) ==
    /\ Awaiting(p)
    /\ Finish(p, Thrown(p, "The request to the dependency failed"))
    /\ threw' = [threw EXCEPT ![p] = TRUE]
    /\ UNCHANGED << storeVars, uaCreated, lastSet, uuidCount, written, checked, stepFrame >>

NextFail == Next \/ \E p \in Procs : DependencyFails(p)

SpecFail == Init /\ [][NextFail]_vars

(***************************************************************************)
(* The same, with callers that use the exported update functions of utils  *)
(* directly, with any update payload.                                      *)
(***************************************************************************)
UpdateClientPayloads ==
    { [name |-> "Web2"], [client_id |-> "ghost"],
      [client_id |-> "ghost", client_secret |-> "n3w"] }

UpdateApplicationPayloads ==
    { [name |-> "Prod2"], [application_id |-> "ghost"],
      [application_id |-> "ghost", client_id |-> "web"] }

UpdateUserApplicationPayloads ==
    { [account |-> "acct2"], [user_id |-> "nobody"], [application_id |-> "ghost"],
      [user_id |-> "nobody", application_id |-> "ghost", account |-> "acct2"] }

Call(p, name, args, label) ==
    /\ pc[p] = "idle"
    /\ started < MaxInvocations
    /\ started' = started + 1
    /\ fn' = [fn EXCEPT ![p] = "utils"]
    /\ event' = [event EXCEPT ![p] = Spread(args, [call |-> name])]
    /\ pc' = [pc EXCEPT ![p] = label]
    /\ resp' = [resp EXCEPT ![p] = NoResp]
    /\ loc' = [loc EXCEPT ![p] = args]
    /\ written' = [written EXCEPT ![p] = << >>]
    /\ pre' = [pre EXCEPT ![p] = Snapshot]
    /\ threw' = [threw EXCEPT ![p] = FALSE]
    /\ checked' = [checked EXCEPT ![p] = 0]
    /\ UNCHANGED << storeVars, uaCreated, lastSet, uuidCount, now, issuerVars, keyVars >>

CallUpdateClient(p) ==
    \E id \in { "web", "ghost" }, u \in UpdateClientPayloads :
       Call(p, "updateClient", [clientId |-> id, updates |-> u], "uc_get")

CallUpdateApplication(p) ==
    \E id \in { "app", "ghost" }, u \in UpdateApplicationPayloads :
       Call(p, "updateApplication", [applicationId |-> id, updates |-> u], "ua_get")

CallUpdateUserApplication(p) ==
    \E uid \in { Uuid(1), "nobody" }, u \in UpdateUserApplicationPayloads :
       Call(p, "updateUserApplication",
            [userId |-> uid, applicationId |-> "app", updates |-> u], "um_get")

NextUtils ==
    \/ Next
    \/ \E p \in Procs :
          \/ CallUpdateClient(p) \/ CallUpdateApplication(p)
          \/ CallUpdateUserApplication(p)

SpecUtils == Init /\ [][NextUtils]_vars

(***************************************************************************)
(* utils.getIssuerUrl and its module-level cache, on one process.          *)
(***************************************************************************)
CACHE_TTL_MS == 300000

\* What no step of getIssuerUrl changes.
issuerFrame == << storeVars, uaCreated, lastSet, uuidCount, now, procVars, keyVars >>

\* line 174: cachedIssuerUrl && cacheTimestamp && (now - cacheTimestamp) < CACHE_TTL_MS
CacheValidInclusive(nowMs) ==
    /\ cachedIssuerUrl # ""
    /\ cacheTimestamp # 0
    /\ (nowMs - cacheTimestamp) <= CACHE_TTL_MS

CacheValid(nowMs) ==
    /\ cachedIssuerUrl # ""
    /\ cacheTimestamp # 0
    /\ (nowMs - cacheTimestamp) < CACHE_TTL_MS

\* lines 171-176: const now = Date.now(); the cached value, or the fetch.
\* first, hadCache and cacheAge record, apart from the cache's own variables,
\* whether this is the process's first call, whether an earlier call stored a
\* value and how long before this call that call started.
GetIssuerUrl_Call ==
    /\ ipc = "idle"
    /\ LET call == [now |-> clockMs,
                    hadCache |-> ihist.fetches > 0,
                    cacheAge |-> clockMs - ihist.cachedBy,
                    first |-> ~ihist.called,
                    afterFailure |-> ihist.lastFailed,
                    cacheBefore |-> << cachedIssuerUrl, cacheTimestamp >>]
       IN IF CacheValid(clockMs)
          THEN /\ ipc' = "returned"
               /\ icall' = Spread(call, [fetched |-> FALSE, value |-> cachedIssuerUrl,
                                         valueFetchedAt |-> ihist.fetchedAt])
          ELSE /\ ipc' = "fetching"
               /\ icall' = call
    /\ ihist' = [ihist EXCEPT !.called = TRUE, !.lastFailed = FALSE]
    /\ UNCHANGED << cachedIssuerUrl, cacheTimestamp, clockMs, ssmIssuer, issuerFrame >>

\* lines 186-196: every branch of the catch block throws new Error(...).
FetchErrorKind == "Error"

\* A catch block with one message for every cause.
FetchErrorMessageGeneric(state) == "Failed to retrieve OIDC issuer URL: " \o state

\* lines 186-196: the message by error.name.
FetchErrorMessage(state) ==
    CASE state = "absent" -> "OIDC issuer URL parameter not found in SSM"
      [] state = "denied" -> "Access denied to OIDC issuer URL parameter"
      [] OTHER -> "Failed to retrieve OIDC issuer URL: " \o state

\* A fetch that, on failure, keeps serving the cached value for another TTL.
GetIssuerUrl_FetchExtending ==
    /\ ipc = "fetching"
    /\ IF ssmIssuer.state = "present"
       THEN /\ cachedIssuerUrl' = ssmIssuer.value
            /\ cacheTimestamp' = icall.now
            /\ ipc' = "returned"
            /\ icall' = Spread(icall, [fetched |-> TRUE, value |-> ssmIssuer.value,
                                       valueFetchedAt |-> clockMs])
            /\ ihist' = [ihist EXCEPT !.fetches = @ + 1, !.fetchedAt = clockMs,
                                      !.cachedBy = icall.now]
       ELSE /\ ipc' = "thrown"
            /\ icall' = Spread(icall,
                   [fetched |-> TRUE,
                    error |-> FetchErrorKind,
                    message |-> FetchErrorMessage(ssmIssuer.state)])
            /\ ihist' = [ihist EXCEPT !.lastFailed = TRUE]
            /\ cacheTimestamp' = IF cachedIssuerUrl # "" THEN icall.now ELSE cacheTimestamp
            /\ UNCHANGED cachedIssuerUrl
    /\ UNCHANGED << clockMs, ssmIssuer, issuerFrame >>

\* lines 178-197: the GetParameterCommand answers.
GetIssuerUrl_Fetch ==
    /\ ipc = "fetching"
    /\ IF ssmIssuer.state = "present"
       THEN /\ cachedIssuerUrl' = ssmIssuer.value
            /\ cacheTimestamp' = icall.now
            /\ ipc' = "returned"
            /\ icall' = Spread(icall, [fetched |-> TRUE, value |-> ssmIssuer.value,
                                       valueFetchedAt |-> clockMs])
            /\ ihist' = [ihist EXCEPT !.fetches = @ + 1, !.fetchedAt = clockMs,
                                      !.cachedBy = icall.now]
       ELSE /\ ipc' = "thrown"
            /\ icall' = Spread(icall,
                   [fetched |-> TRUE,
                    error |-> FetchErrorKind,
                    message |-> FetchErrorMessage(ssmIssuer.state)])
            /\ ihist' = [ihist EXCEPT !.lastFailed = TRUE]
            /\ UNCHANGED << cachedIssuerUrl, cacheTimestamp >>
    /\ UNCHANGED << clockMs, ssmIssuer, issuerFrame >>

\* The caller has the value or the error.
GetIssuerUrl_Done ==
    /\ ipc \in { "returned", "thrown" }
    /\ ipc' = "idle"
    /\ icall' = EmptyObject
    /\ UNCHANGED << cachedIssuerUrl, cacheTimestamp, clockMs, ssmIssuer, ihist, issuerFrame >>

\* Date.now() moves on, also while a fetch is in flight.
AdvanceClock ==
    /\ ihist.advances < MaxAdvances
    /\ \E d \in { 1, CACHE_TTL_MS - 1, CACHE_TTL_MS } : clockMs' = clockMs + d
    /\ ihist' = [ihist EXCEPT !.advances = @ + 1]
    /\ UNCHANGED << cachedIssuerUrl, cacheTimestamp, ssmIssuer, ipc, icall, issuerFrame >>

\* An operator rotates or deletes the parameter, or revokes access to it, or
\* the parameter store is unavailable.
IssuerParameterStates ==
    { [state |-> "present", value |-> "https://idp.example.com"],
      [state |-> "present", value |-> "https://idp2.example.com"],
      [state |-> "absent", value |-> ""],
      [state |-> "denied", value |-> ""],
      [state |-> "ServiceUnavailable", value |-> ""] }

ChangeParameter ==
    /\ \E s \in IssuerParameterStates \ { ssmIssuer } : ssmIssuer' = s
    /\ UNCHANGED << cachedIssuerUrl, cacheTimestamp, clockMs, ipc, icall, ihist, issuerFrame >>

NextIssuer ==
    \/ GetIssuerUrl_Call \/ GetIssuerUrl_Fetch \/ GetIssuerUrl_Done
    \/ AdvanceClock \/ ChangeParameter

InitCold == InitStore("fresh") /\ InitProcs /\ InitIssuer /\ InitKeys

SpecIssuer == InitCold /\ [][NextIssuer]_vars

(***************************************************************************)
(* utils.verifyUserPassword, called after management-user invocations      *)
(* that run one at a time.                                                 *)
(***************************************************************************)
Null == NullEvent

PasswordEvents ==
    { CreateUserEvent,
      With(CreateUserEvent, "password", LongPasswordA),
      With(CreateUserEvent, "password", "short"),
      ResetPasswordEvent,
      With(ResetPasswordEvent, "newPassword", LongPasswordB),
      With(ResetPasswordEvent, "username", "ghost") }

\* No other invocation is in progress.
Alone(p) == \A q \in Procs \ { p } : pc[q] = "idle"

InvokeUserPassword(p) ==
    Alone(p) /\ \E e \in PasswordEvents : Invoke(p, "management-user", e)

CallVerifyUserPassword(p) ==
    /\ Alone(p)
    /\ \E u \in { "alice", "ghost" },
          pw \in { "Passw0rd!", "N3wPass!", "password", LongPasswordA, LongPasswordB } :
             Call(p, "verifyUserPassword", [username |-> u, password |-> pw], "vp_query")

\* verifyUserPassword lines 368-369: await getUserByUsername(username).
VerifyUserPassword_Query(p) ==
    /\ pc[p] = "vp_query"
    /\ IF UsersNamed(loc[p].username) = {}
       THEN Finish(p, [returned |-> Null])
       ELSE \E id \in UsersNamed(loc[p].username) :
               Goto(p, "vp_compare", Spread(loc[p], [user |-> users[id]]))
    /\ UNCHANGED << storeVars, uaCreated, lastSet, uuidCount, written, okFrame >>

\* verifyUserPassword lines 372-375: await bcrypt.compare(...).
VerifyUserPassword_Compare(p) ==
    /\ pc[p] = "vp_compare"
    /\ IF BcryptCompare(loc[p].password, loc[p].user.password_hash)
       THEN Finish(p, [returned |-> loc[p].user])
       ELSE Finish(p, [returned |-> Null])
    /\ UNCHANGED << storeVars, uaCreated, lastSet, uuidCount, written, okFrame >>

\* Invocations start one at a time, so their steps do not interleave.
NextPasswords ==
    \E p \in Procs :
       \/ InvokeUserPassword(p) \/ CallVerifyUserPassword(p)
       \/ CreateUser_Query(p) \/ CreateUser_Put(p)
       \/ ResetPassword_Query(p) \/ ResetPassword_Get(p) \/ ResetPassword_Put(p)
       \/ VerifyUserPassword_Query(p) \/ VerifyUserPassword_Compare(p)
       \/ Return(p)

SpecPasswords == Init /\ [][NextPasswords]_vars

(***************************************************************************)
(* utils: getSigningKeys, createJWT and verifyJWT, called by processes     *)
(* that share the signing-key parameter.                                   *)
(***************************************************************************)
MaxKeyCalls == 3
MaxKeyAdvances == 2

\* crypto.generateKeyPair('rsa', { modulusLength: 2048, ... }): the n-th pair
\* it produces, as PEM strings.
PrivateKey(n) == "private-key-" \o ToString(n)

PublicKey(n) == "public-key-" \o ToString(n)

\* A signature made with privateKey verifies under publicKey.
KeyPair(privateKey, publicKey) ==
    \E n \in 0..MaxKeyCalls : privateKey = PrivateKey(n) /\ publicKey = PublicKey(n)

\* lines 236-241: const newKeys = { private_key, public_key, kid, alg }
NewKeys(n) ==
    [private_key |-> PrivateKey(n), public_key |-> PublicKey(n),
     kid |-> "kid-" \o ToString(n), alg |-> "RS256"]

MaxKeysJsonLength == 4096

\* JSON.stringify(newKeys).length: the two PEM strings, a uuid of 36
\* characters, "RS256", and 51 characters of JSON punctuation and property
\* names.
KeysJsonLength(newKeys) ==
    pemLength.private_key + pemLength.public_key + 36 + 5 + 51

\* The size check without its test.
KeysSizeUnchecked(newKeys) == FALSE

\* line 246: keysJson.length > 4096
KeysTooLarge(newKeys) == KeysJsonLength(newKeys) > MaxKeysJsonLength


\* What the parameter can hold before the first call: no key material, a
\* part of it, nothing parseable as key material, or the keys of an earlier
\* deployment; or the parameter does not exist.
KeyParameterStates ==
    { [state |-> "present", value |-> EmptyKeys],
      [state |-> "present", value |-> EmptyObject],
      [state |-> "present", value |-> [private_key |-> PrivateKey(0), public_key |-> ""]],
      [state |-> "present", value |-> [public_key |-> PublicKey(0), kid |-> "kid-0"]],
      [state |-> "present", value |-> NewKeys(0)],
      [state |-> "absent", value |-> EmptyObject] }

\* line 231: !keys.private_key || !keys.public_key
KeysIncomplete(keys) == ~TruthyStr(keys, "private_key") \/ ~TruthyStr(keys, "public_key")

KeysComplete(keys) == ~KeysIncomplete(keys)

Payloads == { [sub |-> "uuid-1"], [sub |-> "uuid-1", scope |-> "openid"] }

\* expiresIn = '1h', in the seconds jsonwebtoken counts in.
TokenTtl == 3600

\* jwt.sign(payload, keys.private_key, { algorithm, expiresIn, keyid, issuer })
Sign(payload, keys, issuerUrl, t) ==
    [header |-> [alg |-> "RS256", kid |-> keys.kid],
     payload |-> Spread(payload, [iat |-> t, exp |-> t + TokenTtl, iss |-> issuerUrl]),
     signedBy |-> keys.private_key]

\* jwt.verify(token, keys.public_key, { algorithms: ['RS256'], issuer }): the
\* decoded payload, or the error thrown.
Verify(token, publicKey, issuerUrl, t) ==
    IF token.header.alg # "RS256"
    THEN [ok |-> FALSE, error |-> "invalid algorithm"]
    ELSE IF ~KeyPair(token.signedBy, publicKey)
    THEN [ok |-> FALSE, error |-> "invalid signature"]
    ELSE IF t >= token.payload.exp
    THEN [ok |-> FALSE, error |-> "jwt expired"]
    ELSE IF token.payload.iss # issuerUrl
    THEN [ok |-> FALSE, error |-> "jwt issuer invalid"]
    ELSE [ok |-> TRUE, payload |-> token.payload]

keyFrame == << storeVars, uaCreated, lastSet, uuidCount, now, procVars, issuerVars,
              pemLength >>

\* A process calls one of the three exported functions.  seen is what the
\* getSigningKeys calls that completed before this call have returned.
KeyCall(p, name, args) ==
    /\ kpc[p] = "idle"
    /\ khist.calls < MaxKeyCalls
    /\ khist' = [khist EXCEPT !.calls = @ + 1]
    /\ kop' = [kop EXCEPT ![p] = name]
    /\ kpc' = [kpc EXCEPT ![p] = "ks_get"]
    /\ kloc' = [kloc EXCEPT ![p] = Spread(args, [seen |-> khist.returned,
                                                  wrote |-> FALSE])]
    /\ UNCHANGED << ssmKeys, keyCount, ktime, tokens, keyFrame >>

CallGetSigningKeys(p) == KeyCall(p, "getSigningKeys", EmptyObject)

CallCreateJWT(p) == \E payload \in Payloads : KeyCall(p, "createJWT", [payload |-> payload])

CallVerifyJWT(p) == \E token \in tokens : KeyCall(p, "verifyJWT", [token |-> token])

\* An error leaves the function: getSigningKeys rethrows what it catches,
\* createJWT and verifyJWT catch nothing.
KeyThrow(p, l, name, message) ==
    /\ kpc' = [kpc EXCEPT ![p] = "thrown"]
    /\ kloc' = [kloc EXCEPT ![p] = Spread(l, [error |-> name, message |-> message,
                                               at |-> ktime])]

\* getSigningKeys returns keys: to its caller, or to createJWT / verifyJWT,
\* which go on to await getIssuerUrl().
KeysReturned(p, l, keys) ==
    /\ kpc' = [kpc EXCEPT ![p] = IF kop[p] = "getSigningKeys" THEN "returned"
                                 ELSE "issuer"]
    /\ kloc' = [kloc EXCEPT ![p] = Spread(l, [keys |-> keys, at |-> ktime])]
    /\ khist' = [khist EXCEPT !.returned = @ \cup { keys }]

\* lines 223-229 and 231, 260: GetParameterCommand and JSON.parse; complete
\* keys are returned as they are.  param records what the call found.
GetSigningKeys_Get(p) ==
    /\ kpc[p] = "ks_get"
    /\ IF ssmKeys.state = "absent"
       THEN \* the SDK's ParameterNotFound exception, caught and thrown again
            /\ KeyThrow(p, Spread(kloc[p], [param |-> "absent"]), "ParameterNotFound",
                        "Parameter not found")
            /\ UNCHANGED khist
       ELSE IF KeysIncomplete(ssmKeys.value)
       THEN /\ kpc' = [kpc EXCEPT ![p] = "ks_generate"]
            /\ kloc' = [kloc EXCEPT ![p] = Spread(@, [param |-> "incomplete"])]
            /\ UNCHANGED khist
       ELSE KeysReturned(p, Spread(kloc[p], [param |-> "complete"]), ssmKeys.value)
    /\ UNCHANGED << ssmKeys, keyCount, ktime, kop, tokens, keyFrame >>

\* lines 232-248: await generateKeyPair(), uuidv4(), JSON.stringify and the
\* size check that precedes the write.
GetSigningKeys_Generate(p) ==
    /\ kpc[p] = "ks_generate"
    /\ keyCount' = keyCount + 1
    /\ LET newKeys == NewKeys(keyCount + 1)
       IN IF KeysTooLarge(newKeys)
          THEN KeyThrow(p, kloc[p], "Error",
                        "JWT keys too large for SSM parameter: "
                           \o ToString(KeysJsonLength(newKeys)) \o " bytes (max 4096)")
          ELSE /\ kpc' = [kpc EXCEPT ![p] = "ks_put"]
               /\ kloc' = [kloc EXCEPT ![p] = Spread(@, [newKeys |-> newKeys])]
    /\ UNCHANGED << ssmKeys, ktime, kop, tokens, khist, keyFrame >>

\* lines 250-257: PutParameterCommand with Overwrite: true; return newKeys.
GetSigningKeys_Put(p) ==
    /\ kpc[p] = "ks_put"
    /\ ssmKeys' = [state |-> "present", value |-> kloc[p].newKeys]
    /\ KeysReturned(p, Spread(kloc[p], [wrote |-> TRUE]), kloc[p].newKeys)
    /\ UNCHANGED << keyCount, ktime, kop, tokens, keyFrame >>

\* const issuerUrl = await getIssuerUrl(): the issuer-URL parameter never
\* changes while these calls run, so what a process has cached, if anything,
\* is the parameter's value.
IssuerUrlRead == ssmIssuer.value

\* createJWT lines 270-277: await getIssuerUrl(), then jwt.sign.
CreateJWT_Sign(p) ==
    /\ kpc[p] = "issuer" /\ kop[p] = "createJWT"
    /\ LET token == Sign(kloc[p].payload, kloc[p].keys, IssuerUrlRead, ktime)
       IN /\ tokens' = tokens \cup { token }
          /\ kloc' = [kloc EXCEPT ![p] = Spread(@, [result |-> token, at |-> ktime])]
    /\ kpc' = [kpc EXCEPT ![p] = "returned"]
    /\ UNCHANGED << ssmKeys, keyCount, ktime, kop, khist, keyFrame >>

\* verifyJWT lines 283-288: await getIssuerUrl(), then jwt.verify.
VerifyJWT_Verify(p) ==
    /\ kpc[p] = "issuer" /\ kop[p] = "verifyJWT"
    /\ LET v == Verify(kloc[p].token, kloc[p].keys.public_key, IssuerUrlRead, ktime)
       IN IF v.ok
          THEN /\ kpc' = [kpc EXCEPT ![p] = "returned"]
               /\ kloc' = [kloc EXCEPT ![p] = Spread(@, [result |-> v.payload,
                                                         at |-> ktime])]
          ELSE KeyThrow(p, kloc[p], "JsonWebTokenError", v.error)
    /\ UNCHANGED << ssmKeys, keyCount, ktime, kop, tokens, khist, keyFrame >>

\* The caller has the value or the error.
KeyCallDone(p) ==
    /\ kpc[p] \in { "returned", "thrown" }
    /\ kpc' = [kpc EXCEPT ![p] = "idle"]
    /\ kop' = [kop EXCEPT ![p] = ""]
    /\ kloc' = [kloc EXCEPT ![p] = EmptyObject]
    /\ UNCHANGED << ssmKeys, keyCount, ktime, tokens, khist, keyFrame >>

\* Time passes, also while a call is in flight.
AdvanceKeyClock ==
    /\ khist.advances < MaxKeyAdvances
    /\ \E d \in { 1, TokenTtl - 1 } : ktime' = ktime + d
    /\ khist' = [khist EXCEPT !.advances = @ + 1]
    /\ UNCHANGED << ssmKeys, keyCount, kop, kpc, kloc, tokens, keyFrame >>

NextKeys ==
    \/ \E p \in Procs :
          \/ CallGetSigningKeys(p) \/ CallCreateJWT(p) \/ CallVerifyJWT(p)
          \/ GetSigningKeys_Get(p) \/ GetSigningKeys_Generate(p)
          \/ GetSigningKeys_Put(p)
          \/ CreateJWT_Sign(p) \/ VerifyJWT_Verify(p)
          \/ KeyCallDone(p)
    \/ AdvanceKeyClock

InitSigning ==
    /\ InitStore("fresh") /\ InitProcs /\ InitIssuer
    /\ ssmKeys \in KeyParameterStates /\ InitKeyCalls

SpecKeys == InitSigning /\ [][NextKeys]_vars


\* What generateKeyPair can resolve with, by the length of the serialized
\* key material: a 2048-bit key, material that fills the parameter store's
\* ceiling exactly, and material one character longer.
GeneratedPemLengths ==
    { PemLength2048,
      [private_key |-> MaxKeysJsonLength - 92 - PemLength2048.public_key,
       public_key |-> PemLength2048.public_key],
      [private_key |-> MaxKeysJsonLength - 91 - PemLength2048.public_key,
       public_key |-> PemLength2048.public_key] }

InitKeySizes ==
    /\ InitStore("fresh") /\ InitProcs /\ InitIssuer
    /\ ssmKeys \in KeyParameterStates /\ InitKeyCallState
    /\ pemLength \in GeneratedPemLengths

SpecKeySizes == InitKeySizes /\ [][NextKeys]_vars


(***************************************************************************)
(* validateClient, called while the management-client handler creates and  *)
(* updates clients.                                                        *)
(***************************************************************************)
\* An argument of validateClient: null (also the default of an argument that
\* is left out) or a string.
ArgNull == [kind |-> "null", str |-> ""]

ArgString(s) == [kind |-> "string", str |-> s]

\* if (clientSecret && ...), if (redirectUri && ...): null and '' are falsy.
TruthyArg(a) == a.kind = "string" /\ a.str # ""

\* client.redirect_uris.includes(redirectUri): membership in an array; on a
\* string, which an update can store, the empty string contains only itself
\* among the arguments used here, and a URL contains itself.
Includes(v, s) ==
    IF IsArray(v)
    THEN \E i \in 1..Len(v.items) : v.items[i] = s
    ELSE s = "" \/ v.str = s

SecretArgs == { ArgNull, ArgString(""), ArgString("s3cret"), ArgString("n3w") }

RedirectUriArgs ==
    { ArgNull, ArgString(""), ArgString("https://a/cb"), ArgString("http://b/cb") }

CallValidateClient(p) ==
    \E id \in { "web", "ghost" }, secret \in SecretArgs, uri \in RedirectUriArgs :
       Call(p, "validateClient",
            [clientId |-> id, clientSecret |-> secret, redirectUri |-> uri], "vc_get")

\* validateClient lines 401-404, for the client that getClientById found.
validateClient(client, clientSecret, redirectUri) ==
    IF TruthyArg(clientSecret) /\ client.client_secret # clientSecret.str
    THEN Null
    ELSE IF TruthyArg(redirectUri)
            /\ ~Includes(client.redirect_uris, redirectUri.str)
    THEN Null
    ELSE client

\* validateClient lines 398-404: await getClientById(clientId), then the
\* tests, which run without another await.
ValidateClient_Get(p) ==
    /\ pc[p] = "vc_get"
    /\ IF ~Found(clients, loc[p].clientId)
       THEN Finish(p, [returned |-> Null])
       ELSE Finish(p, [returned |-> validateClient(clients[loc[p].clientId],
                                                   loc[p].clientSecret,
                                                   loc[p].redirectUri)])
    /\ UNCHANGED << storeVars, uaCreated, lastSet, uuidCount, written, okFrame >>

NextValidate ==
    \E p \in Procs :
       \/ InvokeClient(p) \/ CallValidateClient(p)
       \/ CreateClient_Get(p) \/ CreateClient_Put(p)
       \/ UpdateClient_HandlerGet(p) \/ UpdateClient_Get(p) \/ UpdateClient_Put(p)
       \/ ValidateClient_Get(p)
       \/ Return(p)

SpecValidate == Init /\ [][NextValidate]_vars

(***************************************************************************)
(* Properties.                                                             *)
(***************************************************************************)
IsHandlerCall(p) == fn[p] \notin { "", "utils" }

Completed(p) == pc[p] = "done" /\ IsHandlerCall(p)

Operation(p) ==
    IF /\ IsHandlerCall(p)
       /\ ~IsNull(event[p])
       /\ TruthyStr(event[p], "operation")
       /\ event[p].operation \in Operations(fn[p])
    THEN event[p].operation ELSE "none"

PassesValidation(p) == handler(fn[p], event[p]).pc # "done"

IsInvalidRequest(r) ==
    /\ r.statusCode = 400
    /\ Has(r.body, "error")
    /\ r.body.error = "invalid_request"

IsServerError(r) ==
    /\ r.statusCode = 500
    /\ Has(r.body, "error")
    /\ r.body.error = "server_error"

\* The unique key of a create request was in the store when it was invoked.
KeyExistedAtInvocation(p) ==
    LET e == event[p]
    IN CASE Operation(p) = "createUser" ->
              TruthyStr(e, "username") /\ e.username \in pre[p].usernames
         [] Operation(p) = "createClient" ->
              TruthyStr(e, "client_id") /\ e.client_id \in pre[p].clients
         [] Operation(p) = "createApplication" ->
              TruthyStr(e, "application_id")
              /\ e.application_id \in pre[p].applications
         [] Operation(p) = "createUserApplication" ->
              /\ TruthyStr(e, "user_id") /\ TruthyStr(e, "application_id")
              /\ << e.user_id, e.application_id >> \in pre[p].userApplications
         [] OTHER -> FALSE

\* C1: a create request whose unique key is already in the store when it is
\* invoked, and whose other fields are valid, is answered 400 invalid_request
\* and writes nothing.
C1_DuplicateCreateRejected ==
    \A p \in Procs :
       (Completed(p) /\ KeyExistedAtInvocation(p) /\ PassesValidation(p))
          => (IsInvalidRequest(resp[p]) /\ written[p] = << >>)

DuplicateRejected(p, op) ==
    /\ Completed(p) /\ Operation(p) = op
    /\ KeyExistedAtInvocation(p) /\ PassesValidation(p)
    /\ IsInvalidRequest(resp[p])

C1_Witness ==
    \/ DuplicateRejected("p1", "createUser") /\ DuplicateRejected("p2", "createClient")
    \/ /\ DuplicateRejected("p1", "createApplication")
       /\ DuplicateRejected("p2", "createUserApplication")

\* The entity an update request names is not in the store.  Nothing is ever
\* deleted, so an entity that is absent now was absent during the whole
\* invocation.
TargetAbsent(p) ==
    LET e == event[p]
    IN CASE Operation(p) = "updateClient" ->
              TruthyStr(e, "client_id") /\ ~Found(clients, e.client_id)
         [] Operation(p) = "updateApplication" ->
              TruthyStr(e, "application_id") /\ ~Found(applications, e.application_id)
         [] Operation(p) = "updateUserApplication" ->
              /\ TruthyStr(e, "user_id") /\ TruthyStr(e, "application_id")
              /\ ~Found(userApplications, << e.user_id, e.application_id >>)
         [] Operation(p) = "resetPassword" ->
              TruthyStr(e, "username") /\ UsersNamed(e.username) = {}
         [] OTHER -> FALSE

\* C2: an update request whose target is not in the store is answered 400
\* invalid_request and writes nothing.
C2_UpdateOfMissingRejected ==
    \A p \in Procs :
       (Completed(p) /\ TargetAbsent(p))
          => (IsInvalidRequest(resp[p]) /\ written[p] = << >>)

MissingRejected(p, op) ==
    /\ Completed(p) /\ Operation(p) = op /\ TargetAbsent(p) /\ PassesValidation(p)
    /\ IsInvalidRequest(resp[p])

C2_Witness ==
    \/ MissingRejected("p1", "updateClient") /\ MissingRejected("p2", "resetPassword")
    \/ /\ MissingRejected("p1", "updateApplication")
       /\ MissingRejected("p2", "updateUserApplication")

\* The users this invocation wrote.
WrittenUserIds(p) ==
    { written[p][i].item.user_id : i \in { j \in 1..Len(written[p]) :
                                            written[p][j].table = "users" } }

\* No other invocation has stored a user with the request's username: the
\* username was not in the store when the handler looked for it.
UsernameUnused(p) ==
    \A id \in UsersNamed(event[p].username) : id \in WrittenUserIds(p)

\* C3: a valid createUser request with an unused username is answered 200,
\* persists exactly one new user record, which has a password_hash, and the
\* user of the response is that record without its password_hash.
C3_CreateUserPersistsAndHidesHash ==
    \A p \in Procs :
       (Completed(p) /\ Operation(p) = "createUser" /\ PassesValidation(p)
          /\ UsernameUnused(p))
          => /\ resp[p].statusCode = 200
             /\ Len(written[p]) = 1
             /\ written[p][1].table = "users"
             /\ Has(written[p][1].item, "password_hash")
             /\ written[p][1].item.user_id \notin pre[p].users
             /\ written[p][1].item.username = event[p].username
             /\ ~Has(resp[p].body.user, "password_hash")
             /\ resp[p].body.user = Without(written[p][1].item, {"password_hash"})

C3_Witness ==
    \E p \in Procs :
       /\ Completed(p) /\ Operation(p) = "createUser" /\ PassesValidation(p)
       /\ UsernameUnused(p)
       /\ resp[p].statusCode = 200
       /\ Found(users, resp[p].body.user.user_id)

\* C4: no two stored user records have the same username.
C4_UsernamesUnique ==
    \A a, b \in DOMAIN users : users[a].username = users[b].username => a = b

\* A redirect_uris value as the README documents it.
ValidRedirectUris(v) ==
    /\ IsArray(v)
    /\ Len(v.items) > 0
    /\ \A i \in 1..Len(v.items) :
          /\ ParseURL(v.items[i]).ok
          /\ ParseURL(v.items[i]).protocol \in { "http:", "https:" }

\* C5: every stored client has a redirect_uris that is a non-empty list of
\* valid http or https URLs.
C5_StoredRedirectUrisValid ==
    \A id \in DOMAIN clients : ValidRedirectUris(clients[id].redirect_uris)

\* C6: the client_id of every stored application is the client_id of a
\* stored client.
C6_ApplicationClientExists ==
    \A id \in DOMAIN applications : Found(clients, applications[id].client_id)

\* C7: every stored user-application mapping is stored under the pair it
\* names, its user and its application are in the store, and a
\* createUserApplication wrote the pair earlier.
C7_MappingsReferenceExisting ==
    \A k \in DOMAIN userApplications :
       /\ k = UserApplicationKey(userApplications[k])
       /\ Found(users, k[1])
       /\ Found(applications, k[2])
       /\ k \in uaCreated

C7_Witness ==
    \E p, q \in Procs :
       /\ Completed(p) /\ Operation(p) = "createUserApplication"
       /\ resp[p].statusCode = 200
       /\ Found(userApplications, << event[p].user_id, event[p].application_id >>)
       /\ Completed(q) /\ Operation(q) = "updateUserApplication"
       /\ IsInvalidRequest(resp[q])
       /\ PassesValidation(q)

\* The put of an update function writes the item under the key it was called
\* with, which is the key of the item it read, and nothing else changes.
UpdateClientKeepsKey(p) ==
    (pc[p] = "uc_put" /\ written'[p] # written[p]) =>
       LET k == loc[p].clientId
       IN /\ loc[p].client.client_id = k
          /\ DOMAIN clients' = DOMAIN clients
          /\ \A j \in DOMAIN clients : j # k => clients'[j] = clients[j]
          /\ clients'[k].client_id = k
          /\ UNCHANGED << users, applications, userApplications >>

UpdateApplicationKeepsKey(p) ==
    (pc[p] = "ua_put" /\ written'[p] # written[p]) =>
       LET k == loc[p].applicationId
       IN /\ loc[p].application.application_id = k
          /\ DOMAIN applications' = DOMAIN applications
          /\ \A j \in DOMAIN applications : j # k => applications'[j] = applications[j]
          /\ applications'[k].application_id = k
          /\ UNCHANGED << users, clients, userApplications >>

UpdateUserApplicationKeepsKey(p) ==
    (pc[p] = "um_put" /\ written'[p] # written[p]) =>
       LET k == << loc[p].userId, loc[p].applicationId >>
       IN /\ UserApplicationKey(loc[p].userApplication) = k
          /\ DOMAIN userApplications' = DOMAIN userApplications
          /\ \A j \in DOMAIN userApplications :
                j # k => userApplications'[j] = userApplications[j]
          /\ UserApplicationKey(userApplications'[k]) = k
          /\ UNCHANGED << users, clients, applications >>

\* C8: whatever the update payload holds, updateClient, updateApplication
\* and updateUserApplication write the record under the key of the request,
\* with its key fields equal to that key, and create or change no record
\* under another key.
C8_UpdateKeepsPrimaryKey ==
    [][\A p \in Procs : /\ UpdateClientKeepsKey(p)
                        /\ UpdateApplicationKeepsKey(p)
                        /\ UpdateUserApplicationKeepsKey(p)]_vars

\* A payload that names another key was applied, and the key did not change.
PayloadKeyIgnored(p, call) ==
    /\ pc[p] = "done" /\ fn[p] = "utils" /\ event[p].call = call
    /\ Has(resp[p], "returned")
    /\ CASE call = "updateClient" ->
              /\ Has(event[p].updates, "client_id")
              /\ event[p].updates.client_id # event[p].clientId
              /\ clients[event[p].clientId] = resp[p].returned
              /\ resp[p].returned.client_id = event[p].clientId
         [] call = "updateUserApplication" ->
              /\ Has(event[p].updates, "user_id")
              /\ event[p].updates.user_id # event[p].userId
              /\ UserApplicationKey(resp[p].returned)
                    = << event[p].userId, event[p].applicationId >>
         [] call = "updateApplication" ->
              /\ Has(event[p].updates, "application_id")
              /\ event[p].updates.application_id # event[p].applicationId
              /\ resp[p].returned.application_id = event[p].applicationId

C8_Witness ==
    \/ PayloadKeyIgnored("p1", "updateClient")
       /\ PayloadKeyIgnored("p2", "updateUserApplication")
    \/ PayloadKeyIgnored("p1", "updateApplication")
       /\ PayloadKeyIgnored("p2", "updateClient")

\* C9: every invocation of a management handler ends with a response
\* envelope whose statusCode is 200, 400 or 500; invalid_request comes with
\* 400, and a rejected dependency call with 500 server_error.
C9_EnvelopeAndStatus ==
    \A p \in Procs :
       Completed(p) =>
          /\ DOMAIN resp[p] = { "statusCode", "headers", "body" }
          /\ resp[p].statusCode \in { 200, 400, 500 }
          /\ (Has(resp[p].body, "error") /\ resp[p].body.error = "invalid_request")
                => resp[p].statusCode = 400
          /\ threw[p] => IsServerError(resp[p])

C9_Witness ==
    \E p, q \in Procs :
       /\ Completed(p) /\ threw[p] /\ PassesValidation(p) /\ IsServerError(resp[p])
       /\ Completed(q) /\ IsNull(event[q]) /\ resp[q].statusCode = 500

\* C10 as stated: a getIssuerUrl call fetches exactly when it is the
\* process's first call or the cached value was fetched (by a call that
\* started) CACHE_TTL_MS or more before the call.
C10_FetchExactlyOnFirstCallOrStale ==
    ipc # "idle" =>
       ((ipc = "fetching" \/ icall.fetched)
          <=> (icall.first \/ (icall.hadCache /\ icall.cacheAge >= CACHE_TTL_MS)))

\* C10, amended: a getIssuerUrl call fetches exactly when no earlier call has
\* stored a value or the call that stored it started CACHE_TTL_MS or more
\* before this one; otherwise it returns the cached value.  No call returns
\* a value that was fetched CACHE_TTL_MS or more before the call.
C10_FetchExactlyWhenStale ==
    /\ ipc # "idle" =>
          ((ipc = "fetching" \/ icall.fetched)
             <=> (~icall.hadCache \/ icall.cacheAge >= CACHE_TTL_MS))
    /\ ipc = "returned" =>
          /\ icall.now - icall.valueFetchedAt < CACHE_TTL_MS
          /\ icall.value = cachedIssuerUrl

\* A call that is not the process's first fetched because nothing was cached.
C10_Witness ==
    /\ ipc = "returned"
    /\ icall.fetched
    /\ ~icall.first
    /\ ~icall.hadCache
    /\ icall.value = cachedIssuerUrl

\* getSigningKeys has handed keys to its caller on process p.
GotKeys(p) == Has(kloc[p], "keys")

\* C11: a getSigningKeys call that starts after another has completed
\* returns the key id and key pair that one returned, and writes nothing to
\* the parameter store.
C11_KeysGeneratedOnce ==
    \A p \in Procs :
       (GotKeys(p) /\ kloc[p].seen # {})
          => (kloc[p].seen = { kloc[p].keys } /\ ~kloc[p].wrote)

\* getSigningKeys has failed on process p.
GetSigningKeysFailed(p) == kpc[p] = "thrown" /\ ~GotKeys(p)

\* C12: a getSigningKeys call that finds the parameter absent, or present
\* without its private or public key, does not fail: it returns new keys
\* with a fresh key id, which it has written to the parameter.
C12_GeneratesWhenAbsentOrIncomplete ==
    \A p \in Procs :
       (Has(kloc[p], "param") /\ kloc[p].param \in { "absent", "incomplete" })
          => /\ ~GetSigningKeysFailed(p)
             /\ GotKeys(p) =>
                   /\ kloc[p].wrote
                   /\ kloc[p].keys = kloc[p].newKeys
                   /\ \A old \in kloc[p].seen : old.kid # kloc[p].keys.kid

\* C13: verifyJWT of a token that createJWT returned, finishing before the
\* token's expiry, returns the token's claims.
C13_TokenRoundTrip ==
    \A p \in Procs :
       (/\ kop[p] = "verifyJWT" /\ kpc[p] \in { "returned", "thrown" }
        /\ kloc[p].token \in tokens
        /\ kloc[p].at < kloc[p].token.payload.exp)
          => /\ kpc[p] = "returned"
             /\ kloc[p].result = kloc[p].token.payload

\* verifyUserPassword has returned on process p.
Verified(p) ==
    /\ pc[p] = "done" /\ fn[p] = "utils"
    /\ event[p].call = "verifyUserPassword"

\* C14: verifyUserPassword(username, p) returns the user exactly when p is
\* the password the last successful createUser or resetPassword set for
\* that username, and null otherwise.
C14_PasswordRoundTrip ==
    \A p \in Procs :
       Verified(p) =>
          LET u == event[p].username
              isLast == Has(lastSet, u) /\ lastSet[u] = event[p].password
          IN IF isLast
             THEN Has(resp[p].returned, "user_id") /\ resp[p].returned.username = u
             ELSE resp[p].returned = Null

\* C15: no step of the management handlers removes a key from the users,
\* clients, applications or user-applications table.
C15_NoDeletes ==
    [][/\ DOMAIN users \subseteq DOMAIN users'
       /\ DOMAIN clients \subseteq DOMAIN clients'
       /\ DOMAIN applications \subseteq DOMAIN applications'
       /\ DOMAIN userApplications \subseteq DOMAIN userApplications']_vars

\* The workflow's user has been overwritten by a password reset; the user,
\* the client, the application and the mapping are all still there.
C15_Witness ==
    /\ \E p \in Procs : /\ Completed(p) /\ Operation(p) = "resetPassword"
                        /\ resp[p].statusCode = 200
                        /\ written[p] # << >>
    /\ Found(users, SeedUser.user_id)
    /\ users[SeedUser.user_id] # SeedUser
    /\ Found(clients, "web") /\ Found(applications, "app")
    /\ Found(userApplications, UserApplicationKey(SeedUserApplication))

\* The password a createUser or resetPassword request carries.
RequestPassword(p) ==
    IF Operation(p) = "createUser" THEN event[p].password ELSE event[p].newPassword

CarriesPassword(p) ==
    /\ Completed(p)
    /\ \/ Operation(p) = "createUser" /\ TruthyStr(event[p], "password")
       \/ Operation(p) = "resetPassword" /\ TruthyStr(event[p], "newPassword")

\* The special characters the README lists.
PasswordSpecials ==
    { "!", "@", "#", "$", "%", "^", "&", "*", "(", ")", ",", ".", "?", "\"", ":",
      "{", "}", "|", "<", ">", "-", "_", "+", "=", "~", "[", "]", "\\" }

\* The README's password requirements.
MeetsPasswordRules(pw) ==
    LET cs == Chars(pw)
        has(class) == \E i \in 1..Len(cs) : cs[i] \in class
    IN /\ Len(cs) >= 8
       /\ has(UpperLetters) /\ has(Letters) /\ has(Digits) /\ has(PasswordSpecials)

\* C16: a createUser or resetPassword request whose password misses one of
\* the README's requirements is answered 400 invalid_request and writes no
\* user record.
C16_PasswordRulesEnforced ==
    \A p \in Procs :
       (CarriesPassword(p) /\ ~MeetsPasswordRules(RequestPassword(p)))
          => (IsInvalidRequest(resp[p]) /\ written[p] = << >>)

\* The step in which the GetParameterCommand of a getIssuerUrl call answers.
FetchAnswers == ipc = "fetching" /\ ipc' # "fetching"

NotFoundMessage == "OIDC issuer URL parameter not found in SSM"

AccessDeniedMessage == "Access denied to OIDC issuer URL parameter"

\* With the parameter absent or access to it denied, the fetch ends in an
\* error of the given kind whose message names the cause, any other fetch
\* failure has another message, and a call returns a value then only from a
\* cache that has not expired.
FetchFailureContract(kind) ==
    /\ (FetchAnswers /\ ssmIssuer.state = "absent")
          => /\ ipc' = "thrown"
             /\ icall'.error = kind
             /\ icall'.message = NotFoundMessage
    /\ (FetchAnswers /\ ssmIssuer.state = "denied")
          => /\ ipc' = "thrown"
             /\ icall'.error = kind
             /\ icall'.message = AccessDeniedMessage
    /\ (FetchAnswers /\ ssmIssuer.state \notin { "absent", "denied", "present" })
          => /\ ipc' = "thrown"
             /\ icall'.message \notin { NotFoundMessage, AccessDeniedMessage }
    /\ (ipc # "returned" /\ ipc' = "returned" /\ ssmIssuer.state \in { "absent", "denied" })
          => /\ ipc = "idle"
             /\ cachedIssuerUrl # ""
             /\ clockMs - cacheTimestamp < CACHE_TTL_MS
             /\ icall'.value = cachedIssuerUrl

AppNotFoundDescription == "Application ID not found. Please create the application first"

UserNotFoundDescription == "User ID not found. Please create the user first"

\* A completed createUserApplication request that carries both ids and names
\* an application that is not in the applications table.  Nothing is ever
\* deleted, so the application was absent during the whole invocation.
MappingForMissingApp(p) ==
    /\ Completed(p) /\ Operation(p) = "createUserApplication"
    /\ TruthyStr(event[p], "user_id") /\ TruthyStr(event[p], "application_id")
    /\ ~Found(applications, event[p].application_id)

RejectedWith(p, description) ==
    /\ IsInvalidRequest(resp[p])
    /\ resp[p].body.error_description = description
    /\ written[p] = << >>

\* C18 as stated: a createUserApplication request with both ids whose
\* application_id is not in the applications table is answered 400
\* invalid_request with the application-not-found description and writes
\* nothing, whether or not the user_id exists.
C18_MissingAppRejectedAsAppNotFound ==
    \A p \in Procs :
       MappingForMissingApp(p) => RejectedWith(p, AppNotFoundDescription)

\* C18 amended: such a request is always answered 400 invalid_request and
\* writes nothing; the description names the application when the user
\* existed at invocation and names the user when the user does not exist.
C18_MissingAppRejected ==
    \A p \in Procs :
       MappingForMissingApp(p) =>
          /\ \/ RejectedWith(p, AppNotFoundDescription)
             \/ RejectedWith(p, UserNotFoundDescription)
          /\ event[p].user_id \in pre[p].users
                => RejectedWith(p, AppNotFoundDescription)
          /\ ~Found(users, event[p].user_id)
                => RejectedWith(p, UserNotFoundDescription)

C18_Witness ==
    /\ MappingForMissingApp("p1") /\ event["p1"].user_id \in pre["p1"].users
    /\ RejectedWith("p1", AppNotFoundDescription)
    /\ MappingForMissingApp("p2") /\ ~Found(users, event["p2"].user_id)
    /\ RejectedWith("p2", UserNotFoundDescription)

\* The request's unique key, for the three creates whose key the caller supplies.
SuppliedKey(p) ==
    CASE Operation(p) = "createClient" -> event[p].client_id
      [] Operation(p) = "createApplication" -> event[p].application_id
      [] Operation(p) = "createUserApplication" ->
            << event[p].user_id, event[p].application_id >>

\* The request carries the key (createApplication generates an id when the
\* caller supplies none).
SuppliesKey(p) ==
    CASE Operation(p) = "createClient" -> TruthyStr(event[p], "client_id")
      [] Operation(p) = "createApplication" -> TruthyStr(event[p], "application_id")
      [] Operation(p) = "createUserApplication" ->
            TruthyStr(event[p], "user_id") /\ TruthyStr(event[p], "application_id")
      [] OTHER -> FALSE

\* The invocation was a create of kind op whose caller-supplied key was absent
\* when it started, and it returned 200 after writing one record.
CreatedOnAbsentKey(p, op) ==
    /\ Completed(p) /\ Operation(p) = op
    /\ SuppliesKey(p)
    /\ ~KeyExistedAtInvocation(p)
    /\ resp[p].statusCode = 200
    /\ Len(written[p]) = 1

\* Both invocations created a record of kind op under the same key.
Raced(op) ==
    /\ CreatedOnAbsentKey("p1", op) /\ CreatedOnAbsentKey("p2", op)
    /\ SuppliedKey("p1") = SuppliedKey("p2")
    /\ written["p1"][1].item # written["p2"][1].item

StoreOf(op) ==
    CASE op = "createClient" -> clients
      [] op = "createApplication" -> applications
      [] op = "createUserApplication" -> userApplications

RacedStoreHoldsOneOfTheTwo(op) ==
    Raced(op) =>
       /\ Found(StoreOf(op), SuppliedKey("p1"))
       /\ StoreOf(op)[SuppliedKey("p1")]
             \in { written["p1"][1].item, written["p2"][1].item }

\* The step wrote a record: the store then holds that record under its key.
LastWriteStored ==
    \A p \in Procs :
       (Len(written'[p]) = Len(written[p]) + 1) =>
          LET w == written'[p][Len(written'[p])]
          IN /\ w.table = "users" =>
                  /\ Found(users', w.item.user_id)
                  /\ users'[w.item.user_id] = w.item
             /\ w.table = "clients" =>
                  /\ Found(clients', w.item.client_id)
                  /\ clients'[w.item.client_id] = w.item
             /\ w.table = "applications" =>
                  /\ Found(applications', w.item.application_id)
                  /\ applications'[w.item.application_id] = w.item
             /\ w.table = "userApplications" =>
                  /\ Found(userApplications', UserApplicationKey(w.item))
                  /\ userApplications'[UserApplicationKey(w.item)] = w.item

\* C19: every write leaves the written record in the store under its key,
\* replacing whatever was there, so when two concurrent creates with the same
\* caller-supplied key both pass the existence check, both write and both
\* return 200, the store holds one record under the key: the one written
\* last.  The witnesses show that such interleavings exist.
C19_LastWriteWins ==
    [][ /\ LastWriteStored
        /\ RacedStoreHoldsOneOfTheTwo("createClient")'
        /\ RacedStoreHoldsOneOfTheTwo("createApplication")'
        /\ RacedStoreHoldsOneOfTheTwo("createUserApplication")' ]_vars

C19_ClientRace == Raced("createClient")

C19_ApplicationRace == Raced("createApplication")

C19_MappingRace == Raced("createUserApplication")

C19_Witness == C19_ClientRace \/ C19_ApplicationRace \/ C19_MappingRace

\* A 200 answer comes with exactly one store write, a 400 answer with none.
WritesMatchStatus(p) ==
    Completed(p) =>
       /\ resp[p].statusCode = 200 => Len(written[p]) = 1
       /\ resp[p].statusCode = 400 => written[p] = << >>

\* C20 as stated: an invocation of a management handler looks up at most one
\* entity other than the one it creates or updates, writes exactly once when
\* it answers 200 and never when it answers 400.
C20_AtMostOneCrossCheck ==
    \A p \in Procs :
       IsHandlerCall(p) => (checked[p] <= 1 /\ WritesMatchStatus(p))

\* C20 amended: createUserApplication looks up two other entities, the user
\* and then the application, and every 200 answer of it has made both
\* lookups; every other operation looks up at most one.  The write counts
\* are as stated.
C20_CrossChecksAndWrites ==
    \A p \in Procs :
       IsHandlerCall(p) =>
          /\ checked[p] <= (IF Operation(p) = "createUserApplication" THEN 2 ELSE 1)
          /\ (Completed(p) /\ Operation(p) = "createUserApplication"
                 /\ resp[p].statusCode = 200) => checked[p] = 2
          /\ WritesMatchStatus(p)

C20_Witness ==
    /\ Completed("p1") /\ Operation("p1") = "createUserApplication"
    /\ resp["p1"].statusCode = 200
    /\ checked["p1"] = 2 /\ Len(written["p1"]) = 1
    /\ Completed("p2") /\ Operation("p2") = "createApplication"
    /\ resp["p2"].statusCode = 400
    /\ checked["p2"] = 1 /\ written["p2"] = << >>

TooLargeMessage ==
    "JWT keys too large for SSM parameter: "
       \o ToString(KeysJsonLength(EmptyObject)) \o " bytes (max 4096)"

\* The step of getSigningKeys that follows key generation, and what the
\* parameter store and the caller see of it.
SizeCheckContract(kind) ==
    \A p \in Procs :
       /\ (kpc[p] = "ks_generate" /\ kpc'[p] # "ks_generate") =>
             IF KeysJsonLength(EmptyObject) > 4096
             THEN /\ kpc'[p] = "thrown"
                  /\ kloc'[p].error = kind
                  /\ kloc'[p].message = TooLargeMessage
                  /\ ~kloc'[p].wrote
                  /\ ~Has(kloc'[p], "keys") /\ ~Has(kloc'[p], "newKeys")
                  /\ khist'.returned = khist.returned
             ELSE kpc'[p] = "ks_put"
       /\ KeysJsonLength(EmptyObject) > 4096 =>
             /\ ssmKeys' = ssmKeys
             /\ kpc'[p] # "ks_put"

UpdateOperations == { "updateClient", "updateApplication", "updateUserApplication" }

\* The fields an update request asks to change, with their new values.
RequestedUpdates(p) ==
    CASE Operation(p) = "updateClient" -> ClientUpdates(event[p])
      [] Operation(p) = "updateApplication" -> ApplicationUpdates(event[p])
      [] Operation(p) = "updateUserApplication" -> UserApplicationUpdates(event[p])

\* The record an update request names, as the store holds it now.
UpdatedRecord(p) ==
    CASE Operation(p) = "updateClient" -> clients[event[p].client_id]
      [] Operation(p) = "updateApplication" -> applications[event[p].application_id]
      [] Operation(p) = "updateUserApplication" ->
            userApplications[<< event[p].user_id, event[p].application_id >>]

UpdatedKey(p) ==
    CASE Operation(p) = "updateClient" -> event[p].client_id
      [] Operation(p) = "updateApplication" -> event[p].application_id
      [] Operation(p) = "updateUserApplication" ->
            << event[p].user_id, event[p].application_id >>

\* Both invocations updated the same record, which existed when each was
\* invoked, changing disjoint sets of fields, and both returned 200.
DisjointUpdatesDone ==
    /\ Completed("p1") /\ Completed("p2")
    /\ Operation("p1") \in UpdateOperations
    /\ Operation("p2") = Operation("p1")
    /\ resp["p1"].statusCode = 200 /\ resp["p2"].statusCode = 200
    /\ UpdatedKey("p1") = UpdatedKey("p2")
    /\ (DOMAIN RequestedUpdates("p1")) \cap (DOMAIN RequestedUpdates("p2")) = {}

HoldsChangesOf(p) ==
    \A f \in DOMAIN RequestedUpdates(p) :
       /\ Has(UpdatedRecord(p), f)
       /\ UpdatedRecord(p)[f] = RequestedUpdates(p)[f]

\* C22: when two update invocations on the same existing record change
\* disjoint sets of fields and both have returned 200, the stored record
\* contains the changes of both.
C22_NoLostUpdate ==
    DisjointUpdatesDone => (HoldsChangesOf("p1") /\ HoldsChangesOf("p2"))

IssuerCache == << cachedIssuerUrl, cacheTimestamp >>

\* C23: a getIssuerUrl call whose fetch fails leaves the cached value and the
\* cache timestamp as they were before the call and returns no value, and the
\* call that follows a failed call fetches again.
C23_FailedFetchLeavesCache ==
    [][ /\ (ipc = "fetching" /\ ipc' = "thrown") =>
              /\ IssuerCache' = IssuerCache
              /\ IssuerCache' = icall.cacheBefore
              /\ ~Has(icall', "value")
        /\ (ipc = "thrown" /\ ipc' = "idle") => IssuerCache' = icall.cacheBefore
        /\ (ipc = "idle" /\ ipc' # "idle" /\ ihist.lastFailed) => ipc' = "fetching" ]_vars

\* A call failed while an expired value was cached, and the next call is
\* fetching, with the cache still as the failed call found it.
C23_Witness ==
    /\ ipc = "fetching"
    /\ icall.afterFailure
    /\ icall.hadCache
    /\ cachedIssuerUrl # "" /\ cacheTimestamp # 0
    /\ icall.now - cacheTimestamp >= CACHE_TTL_MS

ValidateClientDone(p) ==
    /\ pc[p] = "done" /\ fn[p] = "utils"
    /\ event[p].call = "validateClient"

\* C24: validateClient returns a client only when every argument that is a
\* string, the empty string included, matches the client: the secret equals
\* its client_secret and the redirect URI is one of its redirect_uris.
C24_ValidateClientMatchesEveryString ==
    \A p \in Procs :
       (ValidateClientDone(p) /\ ~IsNull(resp[p].returned)) =>
          LET client == resp[p].returned
              secret == event[p].clientSecret
              uri == event[p].redirectUri
          IN /\ client.client_id = event[p].clientId
             /\ secret.kind = "string" => client.client_secret = secret.str
             /\ uri.kind = "string" => Includes(client.redirect_uris, uri.str)

=============================================================================
